---- MODULE Spec2Model ----
(***************************************************************************)
(* Shop manager: the flat-file record store of the baseline program        *)
(* (src/unnamed/part_000) and of the enhanced program                      *)
(* (src/IT-REPAIR-SHOT/SHOP-MGT.c).                                        *)
(*                                                                         *)
(* A file is a sequence of lines, a line a sequence of one-character       *)
(* strings that ends with the newline fgets keeps.  The decoders           *)
(* (parse_csv_field, strtok, atoi, atof) and the encoders (the fprintf     *)
(* formats) work on those characters as the C code does.                   *)
(***************************************************************************)
EXTENDS Integers, Sequences, FiniteSets, TLC

(* ------------------------------ bounds ------------------------------- *)
\* operations (menu choices) of one behaviour
MaxOps == 3
\* records of one file
MaxRecs == 2

(* ------------------------- program constants ------------------------- *)
MAX_FIELD == 256

(* --------------------------- characters ------------------------------ *)
NL == "\n"
COMMA == ","
QUOTE == "\""
DigitChars == <<"0", "1", "2", "3", "4", "5", "6", "7", "8", "9">>

IsDigit(c) == \E i \in 1..10 : DigitChars[i] = c
DigitVal(c) == (CHOOSE i \in 1..10 : DigitChars[i] = c) - 1
IsSpace(c) == c \in {" ", "\n", "\t"}

\* the value a C function returns for "no string"
NULL == <<"(null)">>

\* F applied to the value of v, which is computed once
Bind(v, F(_)) == CHOOSE y \in {F(w) : w \in {v}} : TRUE

\* the least element of a non-empty set of indices
First(S) == CHOOSE i \in S : \A j \in S : i <= j

Max(a, b) == IF a >= b THEN a ELSE b
Min(a, b) == IF a <= b THEN a ELSE b

\* int is 32 bits wide
IntMax == 2147483647
IntMin == (0 - IntMax) - 1

\* a + b in a 32-bit int, wrapping on overflow (computed without leaving the range)
Add32(a, b) ==
    IF a > 0 /\ b > 0 /\ a > IntMax - b THEN ((a - IntMax) - 1) + ((b - IntMax) - 1)
    ELSE IF a < 0 /\ b < 0 /\ a < IntMin - b THEN ((a + IntMax) + 1) + ((b + IntMax) + 1)
    ELSE a + b

RECURSIVE SetMax(_)
SetMax(S) == IF S = {} THEN 0
             ELSE LET x == CHOOSE y \in S : TRUE
                      m == SetMax(S \ {x})
                  IN  IF x > m THEN x ELSE m

RECURSIVE Concat(_)
Concat(ss) == IF ss = <<>> THEN <<>> ELSE Head(ss) \o Concat(Tail(ss))

(* ------------------------- printf conversions ------------------------ *)
RECURSIVE NatStr(_)
NatStr(n) == IF n < 10 THEN <<DigitChars[n + 1]>>
             ELSE NatStr(n \div 10) \o <<DigitChars[(n % 10) + 1]>>

\* "%d"
FmtD(n) == IF n < 0 THEN <<"-">> \o NatStr(0 - n) ELSE NatStr(n)

\* "%.2f" of an amount held in whole cents
FmtF2(c) ==
    LET a == IF c < 0 THEN 0 - c ELSE c
        body == NatStr(a \div 100) \o <<".">>
                \o <<DigitChars[((a % 100) \div 10) + 1], DigitChars[(a % 10) + 1]>>
    IN  IF c < 0 THEN <<"-">> \o body ELSE body

(* ------------------------------ float -------------------------------- *)
\* float is IEEE single precision: a 24-bit significand, round to nearest,
\* ties to even.  Amounts are whole cents below 2^24 * 100.
Pow24 == 16777216
Pow23x100 == 838860800

RECURSIVE Pow2(_)
Pow2(n) == IF n = 0 THEN 1 ELSE 2 * Pow2(n - 1)

\* n / d rounded to the nearest integer, ties to even (n >= 0, d > 0)
RoundHalfEven(n, d) ==
    LET q == n \div d
        r == n % d
    IN  IF r > d - r \/ (r = d - r /\ q % 2 = 1) THEN q + 1 ELSE q

\* the least s with x * 2^s >= 2^23 * 100, paired with x * 2^s  (x > 0)
RECURSIVE Normalize(_, _)
Normalize(x, s) == IF x >= Pow23x100 THEN [x |-> x, s |-> s] ELSE Normalize(2 * x, s + 1)

\* the float nearest to c / 100 as [m, s]: the value m / 2^s, m of 24 bits
to_float(c) ==
    IF c = 0 THEN [m |-> 0, s |-> 0]
    ELSE Bind(Normalize(c, 0), LAMBDA n : [m |-> RoundHalfEven(n.x, 100), s |-> n.s])

\* the least r with n / 2^r < 2^24
RECURSIVE Excess(_, _)
Excess(n, r) == IF n \div Pow2(r) < Pow24 THEN r ELSE Excess(n, r + 1)

\* "%.2f" of the float m / 2^s, in cents
float_cents(m, s) == RoundHalfEven(m * 100, Pow2(s))

\* s.total_price = p.sell_price * qty, a float, as "%.2f" prints it: the price
\* and the total in cents, qty converted to float exactly
float_times(price, qty) ==
    Bind(to_float(IF price < 0 THEN 0 - price ELSE price), LAMBDA f :
    Bind(f.m * (IF qty < 0 THEN 0 - qty ELSE qty), LAMBDA n :
    Bind(Excess(n, 0), LAMBDA r :
    Bind(IF r <= f.s THEN float_cents(RoundHalfEven(n, Pow2(r)), f.s - r)
         ELSE RoundHalfEven(n, Pow2(r)) * 100 * Pow2(r - f.s), LAMBDA cents :
         IF (price < 0) # (qty < 0) THEN 0 - cents ELSE cents))))

(* --------------------------- atoi / atof ----------------------------- *)
RECURSIVE SkipSpace(_, _)
SkipSpace(s, i) == IF i <= Len(s) /\ IsSpace(s[i]) THEN SkipSpace(s, i + 1) ELSE i

RECURSIVE DigitsFrom(_, _, _)
\* <<value of the digit run that starts at i, index after the run>>
DigitsFrom(s, i, acc) ==
    IF i <= Len(s) /\ IsDigit(s[i]) THEN DigitsFrom(s, i + 1, acc * 10 + DigitVal(s[i]))
    ELSE <<acc, i>>

\* atoi of a non-NULL string: blanks, a sign, the leading digits, 0 if none
atoi(s) ==
    LET i0 == SkipSpace(s, 1)
        neg == i0 <= Len(s) /\ s[i0] = "-"
        i1 == IF i0 <= Len(s) /\ s[i0] \in {"-", "+"} THEN i0 + 1 ELSE i0
        v == DigitsFrom(s, i1, 0)[1]
    IN  IF neg THEN 0 - v ELSE v

\* atof of a non-NULL string, as whole cents; a third decimal rounds
atof(s) ==
    LET i0 == SkipSpace(s, 1)
        neg == i0 <= Len(s) /\ s[i0] = "-"
        i1 == IF i0 <= Len(s) /\ s[i0] \in {"-", "+"} THEN i0 + 1 ELSE i0
        ip == DigitsFrom(s, i1, 0)
        i2 == ip[2]
        dot == i2 <= Len(s) /\ s[i2] = "."
        d(k) == IF dot /\ i2 + k <= Len(s) /\ IsDigit(s[i2 + k])
                   /\ \A j \in 1..k : IsDigit(s[i2 + j])
                THEN DigitVal(s[i2 + k]) ELSE 0
        cents == ip[1] * 100 + d(1) * 10 + d(2) + (IF d(3) >= 5 THEN 1 ELSE 0)
    IN  IF neg THEN 0 - cents ELSE cents

(* ------------------- enhanced program: parse_csv_field --------------- *)
RECURSIVE csv_loop_any_comma(_, _, _, _, _, _)
\* a slip: the quote state is not looked at, every comma ends a field
csv_loop_any_comma(line, field_num, i, current_field, in_quotes, field) ==
    IF i > Len(line) \/ current_field > field_num THEN field
    ELSE IF line[i] = QUOTE
         THEN csv_loop_any_comma(line, field_num, i + 1, current_field, ~in_quotes, field)
    ELSE IF current_field = field_num /\ Len(field) < MAX_FIELD - 1 /\ line[i] = COMMA
         THEN field
    ELSE csv_loop_any_comma(line, field_num, i + 1,
               IF line[i] = COMMA THEN current_field + 1 ELSE current_field,
               in_quotes,
               IF current_field = field_num /\ Len(field) < MAX_FIELD - 1
               THEN Append(field, line[i]) ELSE field)

RECURSIVE csv_loop(_, _, _, _, _, _)
\* the while loop: start index i, current_field, in_quotes, field so far
csv_loop(line, field_num, i, current_field, in_quotes, field) ==
    IF i > Len(line) \/ current_field > field_num THEN field
    ELSE IF line[i] = QUOTE
         THEN csv_loop(line, field_num, i + 1, current_field, ~in_quotes, field)
    ELSE IF /\ current_field = field_num /\ Len(field) < MAX_FIELD - 1
            /\ ~in_quotes /\ line[i] = COMMA
         THEN field
    ELSE csv_loop(line, field_num, i + 1,
               IF ~in_quotes /\ line[i] = COMMA THEN current_field + 1 ELSE current_field,
               in_quotes,
               IF current_field = field_num /\ Len(field) < MAX_FIELD - 1
               THEN Append(field, line[i]) ELSE field)

parse_csv_field(line, field_num) ==
    Bind(csv_loop(line, field_num, 1, 0, FALSE, <<>>), LAMBDA field :
         IF Len(field) = 0 THEN NULL
         ELSE IF Len(field) > 1 /\ field[1] = QUOTE /\ field[Len(field)] = QUOTE
              THEN SubSeq(field, 2, Len(field) - 1)
         ELSE field)

(* ---------------------- baseline program: strtok --------------------- *)
RECURSIVE SkipDelims(_, _, _)
SkipDelims(s, i, delims) ==
    IF i <= Len(s) /\ s[i] \in delims THEN SkipDelims(s, i + 1, delims) ELSE i

RECURSIVE TokenEnd(_, _, _)
TokenEnd(s, i, delims) ==
    IF i <= Len(s) /\ s[i] \notin delims THEN TokenEnd(s, i + 1, delims) ELSE i

\* strtok on the string s from saved position pos:
\* [tok |-> the token or NULL, pos |-> the position saved for the next call]
strtok(s, pos, delims) ==
    LET b == SkipDelims(s, pos, delims)
        e == TokenEnd(s, b, delims)
    IN  IF b > Len(s) THEN [tok |-> NULL, pos |-> b]
        ELSE [tok |-> SubSeq(s, b, e - 1), pos |-> Min(e + 1, Len(s) + 1)]

(* ------------------------------ files -------------------------------- *)
PRODUCTS_FILE == "products.csv"
CUSTOMERS_FILE == "customers.csv"
SALES_FILE == "sales.csv"
REPAIRS_FILE == "repairs.csv"
ASSEMBLIES_FILE == "assemblies.csv"
USERS_FILE == "users.csv"
PRODUCTS_TMP == ".products_tmp"
USERS_TMP == ".users_tmp"
REPAIRS_TMP == ".repairs_tmp"
ASSEMBLIES_TMP == ".assemblies_tmp"

DataFiles == {PRODUCTS_FILE, CUSTOMERS_FILE, SALES_FILE, REPAIRS_FILE,
              ASSEMBLIES_FILE, USERS_FILE}
TmpFiles == {PRODUCTS_TMP, USERS_TMP, REPAIRS_TMP, ASSEMBLIES_TMP}
FileNames == DataFiles \cup TmpFiles

Absent == [exists |-> FALSE, lines |-> <<>>]
File(ls) == [exists |-> TRUE, lines |-> ls]
NoFiles == [n \in FileNames |-> Absent]

\* fopen(path, "r") succeeds
file_exists(F, path) == F[path].exists
\* fopen(path, "w"); fclose: the file exists and is empty
fopen_w(F, path) == [F EXCEPT ![path] = File(<<>>)]
\* the lines fgets returns for the characters s: each ends at its first "\n"
RECURSIVE fgets(_)
fgets(s) ==
    IF s = <<>> THEN <<>>
    ELSE IF \A k \in 1..Len(s) : s[k] # NL THEN <<s>>
    ELSE Bind(CHOOSE k \in 1..Len(s) : s[k] = NL /\ \A j \in 1..(k - 1) : s[j] # NL,
              LAMBDA k : <<SubSeq(s, 1, k)>> \o fgets(SubSeq(s, k + 1, Len(s))))

\* what was written with one fprintf per element of ls, as later scans read
\* it line by line: a "\n" written inside a field ends a line of the file
RECURSIVE written_lines(_)
written_lines(ls) ==
    IF \A i \in 1..Len(ls) : \A k \in 1..(Len(ls[i]) - 1) : ls[i][k] # NL THEN ls
    ELSE fgets(Head(ls)) \o written_lines(Tail(ls))

\* fopen(path, "a"); fprintf one line; fclose
fappend(F, path, line) == [F EXCEPT ![path] = File(@.lines \o written_lines(<<line>>))]
\* the whole content written through a "w" stream, then fclose
fwrite_all(F, path, ls) == [F EXCEPT ![path] = File(written_lines(ls))]
remove(F, path) == [F EXCEPT ![path] = Absent]
rename(F, old, new) ==
    IF F[old].exists THEN [F EXCEPT ![new] = F[old], ![old] = Absent] ELSE F

(* ------------------------------ faults ------------------------------- *)
\* what the environment may do to one operation:
\*   open_tmp     fopen of the temp file fails
\*   open_append  fopen(..., "a") of the entity file fails
\*   write        every fprintf to the temp file fails (disk full)
\*   crash        the process is killed between remove() and rename()
MutatorFaults == {"none", "open_tmp", "write", "crash"}
AppendFaults == {"none", "open_append"}

\* the lines that reach a temp file
Written(out, fault) == IF fault = "write" THEN <<>> ELSE out

\* index of the first element of a sequence of decoded lines that crashed, 0 if none
FirstCrash(dec) ==
    IF \E i \in 1..Len(dec) : dec[i].crash
    THEN CHOOSE i \in 1..Len(dec) : dec[i].crash /\ \A j \in 1..(i - 1) : ~dec[j].crash
    ELSE 0

(* ------------------------- user input sets --------------------------- *)
\* what the user may type at a text prompt
TextInputs == {<<>>, <<"a">>, <<"a", ",", "b">>, <<"a", "\"">>}
\* get_validated_string loops until the input is not empty
NonEmptyTexts == TextInputs \ {<<>>}
admin == <<"a", "d", "m", "i", "n">>
pass == <<"p", "a", "s", "s">>
\* a new password: one shorter than four characters, one long enough
NewPasswordInputs == {<<"p", "w">>, pass}
\* what is typed at the login prompts: <<username, password>>
LoginInputs == {<<admin, admin>>, <<admin, pass>>, <<<<"a">>, pass>>}

(* ------------------------ enhanced: security ------------------------- *)
Ascii(c) ==
    CASE c = "a" -> 97 [] c = "b" -> 98 [] c = "d" -> 100 [] c = "i" -> 105
      [] c = "m" -> 109 [] c = "n" -> 110 [] c = "p" -> 112 [] c = "s" -> 115
      [] c = "w" -> 119 [] c = "," -> 44 [] c = "\"" -> 34 [] OTHER -> 63

HexChars == <<"0", "1", "2", "3", "4", "5", "6", "7", "8", "9",
              "a", "b", "c", "d", "e", "f">>

RECURSIVE djb2(_, _, _)
djb2(s, i, hash) ==
    IF i > Len(s) THEN hash
    ELSE djb2(s, i + 1, (hash * 33 + Ascii(s[i])) % 65536)

\* hash * 33 + c from 5381, printed in hexadecimal.  The model keeps the low
\* 16 bits of the 64-bit unsigned long, that is the last four digits of "%016lx".
simple_hash(input) ==
    LET h == djb2(input, 1, 5381)
    IN  <<HexChars[(h \div 4096) + 1], HexChars[((h \div 256) % 16) + 1],
          HexChars[((h \div 16) % 16) + 1], HexChars[(h % 16) + 1]>>

verify_password(input_password, stored_hash) == simple_hash(input_password) = stored_hash

(* --------------------- enhanced: the users file ---------------------- *)
User(id, username, hash, p, c, s, r, u, a) ==
    [id |-> id, username |-> username, password_hash |-> hash,
     can_manage_products |-> p, can_manage_customers |-> c, can_manage_sales |-> s,
     can_view_reports |-> r, can_manage_users |-> u, is_active |-> a]

NoUser == User(0, <<>>, <<>>, 0, 0, 0, 0, 0, 0)

\* "%d,%s,%s,%d,%d,%d,%d,%d,%d\n"
user_line(u) ==
    Concat(<<FmtD(u.id), <<COMMA>>, u.username, <<COMMA>>, u.password_hash, <<COMMA>>,
             FmtD(u.can_manage_products), <<COMMA>>, FmtD(u.can_manage_customers), <<COMMA>>,
             FmtD(u.can_manage_sales), <<COMMA>>, FmtD(u.can_view_reports), <<COMMA>>,
             FmtD(u.can_manage_users), <<COMMA>>, FmtD(u.is_active), <<NL>>>>)

\* the nine parse_csv_field calls of a users scan; atoi(NULL) and
\* strcpy(.., NULL) end the process
read_user(line) ==
    Bind([k \in 0..8 |-> parse_csv_field(line, k)], LAMBDA f :
         IF \E k \in 0..8 : f[k] = NULL THEN [crash |-> TRUE, u |-> NoUser]
         ELSE [crash |-> FALSE,
               u |-> User(atoi(f[0]), f[1], f[2], atoi(f[3]), atoi(f[4]), atoi(f[5]),
                          atoi(f[6]), atoi(f[7]), atoi(f[8]))])

\* the answers typed at the five "Can ...?" prompts: products, customers,
\* sales, reports, users
FlagInputs == {<<1, 1, 1, 1, 1>>, <<1, 0, 1, 1, 0>>}
WithFlags(u, g, a) ==
    [u EXCEPT !.can_manage_products = g[1], !.can_manage_customers = g[2],
              !.can_manage_sales = g[3], !.can_view_reports = g[4],
              !.can_manage_users = g[5], !.is_active = a]

(* ------------------------------ state -------------------------------- *)
VARIABLES
    variant,        \* "base": src/unnamed/part_000, "enh": SHOP-MGT.c
    pc,             \* "login": main is at login(); "menu": in the menu loop
    fs,             \* the files of the working directory
    current_user,   \* main's User current_user (enhanced program)
    clock,          \* operations done so far; time(NULL) advances with it
    pre,            \* history: fs before the last operation
    last,           \* history: the last operation, its target id, argument, fault, outcome
    issued,         \* history: the ids given to users so far, in the order given
    faulted         \* history: some operation so far met a fault

vars == <<variant, pc, fs, current_user, clock, pre, last, issued, faulted>>

Outcome(F, res, cu) == [fs |-> F, res |-> res, cu |-> cu]
Op(name, id, arg, fault, res) ==
    [op |-> name, id |-> id, arg |-> arg, fault |-> fault, res |-> res]

\* ids the user types at an id prompt
IdInputs == 1..(MaxRecs + 1)

(* --------------------------- next_id_from_file ----------------------- *)
\* ids read by the loop of next_id_from_file, enhanced: parse_csv_field(line, 0)
enh_line_id(line) ==
    Bind(parse_csv_field(line, 0), LAMBDA id_str : IF id_str = NULL THEN 0 ELSE atoi(id_str))

\* baseline: strtok(line, ",")
base_line_id(line) ==
    Bind(strtok(line, 1, {COMMA}).tok, LAMBDA p : IF p = NULL THEN 0 ELSE atoi(p))

\* a slip: one more than the id of the last record instead of the greatest id
next_id_after_last_record(F, file) ==
    IF ~file_exists(F, file) \/ F[file].lines = <<>> THEN 1
    ELSE enh_line_id(F[file].lines[Len(F[file].lines)]) + 1

\* a slip: the greatest id itself, the + 1 forgotten
next_id_without_increment(F, file) ==
    IF ~file_exists(F, file) THEN 1
    ELSE SetMax({enh_line_id(F[file].lines[i]) : i \in 1..Len(F[file].lines)} \cup {0})

enh_next_id_from_file(F, file) ==
    IF ~file_exists(F, file) THEN 1
    ELSE SetMax({enh_line_id(F[file].lines[i]) : i \in 1..Len(F[file].lines)} \cup {0}) + 1

base_next_id_from_file(F, file) ==
    IF ~file_exists(F, file) THEN 1
    ELSE SetMax({base_line_id(F[file].lines[i]) : i \in 1..Len(F[file].lines)} \cup {0}) + 1

(* ------------------- enhanced: authentication ------------------------ *)
default_admin == User(1, admin, simple_hash(admin), 1, 1, 1, 1, 1, 1)

ensure_default_user(F) ==
    IF ~file_exists(F, USERS_FILE) THEN fwrite_all(F, USERS_FILE, <<user_line(default_admin)>>)
    ELSE F

\* the users file decoded line by line, as the scans that read all nine fields do
read_users(F) == [i \in 1..Len(F[USERS_FILE].lines) |-> read_user(F[USERS_FILE].lines[i])]

enh_login(F, username, password) ==
    Bind(ensure_default_user(F), LAMBDA F1 :
    Bind(read_users(F1), LAMBDA dec :
    Bind({i \in DOMAIN dec :
             \/ dec[i].crash
             \/ /\ dec[i].u.username = username
                /\ verify_password(password, dec[i].u.password_hash)
                /\ dec[i].u.is_active # 0}, LAMBDA stop :
         IF stop = {} THEN Outcome(F1, "invalid", NoUser)
         ELSE IF dec[First(stop)].crash THEN Outcome(F1, "crash", NoUser)
         ELSE Outcome(F1, "ok", dec[First(stop)].u))))

(* ------------------- enhanced: user management ----------------------- *)
\* the replace step shared by the scan-and-rewrite handlers:
\* fclose(tmp); remove(file); rename(tmp, file), the process possibly killed
\* between the last two
replace_file(F, file, tmp, out, fault, ok, cu) ==
    Bind(remove(fwrite_all(F, tmp, Written(out, fault)), file), LAMBDA F3 :
         IF fault = "crash" THEN Outcome(F3, "crash", cu)
         ELSE Outcome(rename(F3, tmp, file), ok, cu))

\* if (!f || !tmp): a temp file that did open is closed and left behind, empty
open_failed(F, tmp, fault) == IF fault = "open_tmp" THEN F ELSE fopen_w(F, tmp)

\* the found flag is false: fclose(tmp); remove(tmp)
discard_tmp(F, tmp, res, cu) == Outcome(remove(F, tmp), res, cu)

add_user(cu, F, username, password, g, fault) ==
    IF cu.can_manage_users = 0 THEN Outcome(F, "denied", cu)
    ELSE
    Bind([i \in 1..Len(F[USERS_FILE].lines) |-> parse_csv_field(F[USERS_FILE].lines[i], 1)],
         LAMBDA name :
    Bind({i \in DOMAIN name : name[i] = NULL \/ name[i] = username}, LAMBDA stop :
         IF file_exists(F, USERS_FILE) /\ stop # {}
         THEN (IF name[First(stop)] = NULL THEN Outcome(F, "crash", cu)
               ELSE Outcome(F, "invalid", cu))
         ELSE IF Len(password) < 4 THEN Outcome(F, "invalid", cu)
         ELSE IF fault = "open_append" THEN Outcome(F, "ioerror", cu)
         ELSE Outcome(fappend(F, USERS_FILE,
                              user_line(WithFlags(User(enh_next_id_from_file(F, USERS_FILE),
                                                       username, simple_hash(password),
                                                       0, 0, 0, 0, 0, 1), g, 1))),
                      "ok", cu)))

\* a slip: the "Prevent self-deletion" test is missing
delete_user_any_id(cu, F, user_id, confirm, fault) ==
    IF cu.can_manage_users = 0 THEN Outcome(F, "denied", cu)
    ELSE IF ~file_exists(F, USERS_FILE) \/ fault = "open_tmp"
         THEN Outcome(open_failed(F, USERS_TMP, fault), "ioerror", cu)
    ELSE
    Bind(F[USERS_FILE].lines, LAMBDA ls :
    Bind([i \in 1..Len(ls) |-> parse_csv_field(ls[i], 0)], LAMBDA id_str :
    Bind({i \in 1..Len(ls) : id_str[i] # NULL /\ atoi(id_str[i]) = user_id}, LAMBDA match :
    Bind([i \in 1..Len(ls) |->
             [crash |-> id_str[i] = NULL
                        \/ (i \in match /\ parse_csv_field(ls[i], 1) = NULL)]], LAMBDA dec :
         IF FirstCrash(dec) # 0 THEN Outcome(fopen_w(F, USERS_TMP), "crash", cu)
         ELSE IF match = {} THEN discard_tmp(F, USERS_TMP, "notfound", cu)
         ELSE replace_file(F, USERS_FILE, USERS_TMP,
                           SelectSeq([i \in 1..Len(ls) |->
                                         IF i \in match /\ confirm THEN NULL ELSE ls[i]],
                                     LAMBDA l : l # NULL),
                           fault, IF confirm THEN "ok" ELSE "cancelled", cu)))))

\* a slip: the answer to "Are you sure" is not looked at, the record is dropped
delete_user_unconfirmed(cu, F, user_id, confirm, fault) ==
    IF cu.can_manage_users = 0 THEN Outcome(F, "denied", cu)
    ELSE IF user_id = cu.id THEN Outcome(F, "invalid", cu)
    ELSE IF ~file_exists(F, USERS_FILE) \/ fault = "open_tmp"
         THEN Outcome(open_failed(F, USERS_TMP, fault), "ioerror", cu)
    ELSE
    Bind(F[USERS_FILE].lines, LAMBDA ls :
    Bind([i \in 1..Len(ls) |-> parse_csv_field(ls[i], 0)], LAMBDA id_str :
    Bind({i \in 1..Len(ls) : id_str[i] # NULL /\ atoi(id_str[i]) = user_id}, LAMBDA match :
    Bind([i \in 1..Len(ls) |->
             [crash |-> id_str[i] = NULL
                        \/ (i \in match /\ parse_csv_field(ls[i], 1) = NULL)]], LAMBDA dec :
         IF FirstCrash(dec) # 0 THEN Outcome(fopen_w(F, USERS_TMP), "crash", cu)
         ELSE IF match = {} THEN discard_tmp(F, USERS_TMP, "notfound", cu)
         ELSE replace_file(F, USERS_FILE, USERS_TMP,
                           SelectSeq([i \in 1..Len(ls) |->
                                         IF i \in match THEN NULL ELSE ls[i]],
                                     LAMBDA l : l # NULL),
                           fault, "ok", cu)))))

delete_user(cu, F, user_id, confirm, fault) ==
    IF cu.can_manage_users = 0 THEN Outcome(F, "denied", cu)
    ELSE IF user_id = cu.id THEN Outcome(F, "invalid", cu)
    ELSE IF ~file_exists(F, USERS_FILE) \/ fault = "open_tmp"
         THEN Outcome(open_failed(F, USERS_TMP, fault), "ioerror", cu)
    ELSE
    Bind(F[USERS_FILE].lines, LAMBDA ls :
    Bind([i \in 1..Len(ls) |-> parse_csv_field(ls[i], 0)], LAMBDA id_str :
    Bind({i \in 1..Len(ls) : id_str[i] # NULL /\ atoi(id_str[i]) = user_id}, LAMBDA match :
    Bind([i \in 1..Len(ls) |->
             [crash |-> id_str[i] = NULL
                        \/ (i \in match /\ parse_csv_field(ls[i], 1) = NULL)]], LAMBDA dec :
         IF FirstCrash(dec) # 0 THEN Outcome(fopen_w(F, USERS_TMP), "crash", cu)
         ELSE IF match = {} THEN discard_tmp(F, USERS_TMP, "notfound", cu)
         ELSE replace_file(F, USERS_FILE, USERS_TMP,
                           SelectSeq([i \in 1..Len(ls) |->
                                         IF i \in match /\ confirm THEN NULL ELSE ls[i]],
                                     LAMBDA l : l # NULL),
                           fault, IF confirm THEN "ok" ELSE "cancelled", cu)))))

edit_user_permissions(cu, F, user_id, g, a, fault) ==
    IF cu.can_manage_users = 0 THEN Outcome(F, "denied", cu)
    ELSE IF ~file_exists(F, USERS_FILE) \/ fault = "open_tmp"
         THEN Outcome(open_failed(F, USERS_TMP, fault), "ioerror", cu)
    ELSE
    Bind(read_users(F), LAMBDA dec :
         IF FirstCrash(dec) # 0 THEN Outcome(fopen_w(F, USERS_TMP), "crash", cu)
         ELSE IF \A i \in DOMAIN dec : dec[i].u.id # user_id
              THEN discard_tmp(F, USERS_TMP, "notfound", cu)
         ELSE replace_file(F, USERS_FILE, USERS_TMP,
                           [i \in DOMAIN dec |->
                               user_line(IF dec[i].u.id = user_id
                                         THEN WithFlags(dec[i].u, g, a) ELSE dec[i].u)],
                           fault, "ok", cu))

\* no found flag: the temp file always replaces users.csv
change_password(cu, F, old_password, new_password, fault) ==
    IF ~verify_password(old_password, cu.password_hash) THEN Outcome(F, "invalid", cu)
    ELSE IF Len(new_password) < 4 THEN Outcome(F, "invalid", cu)
    ELSE IF ~file_exists(F, USERS_FILE) \/ fault = "open_tmp"
         THEN Outcome(open_failed(F, USERS_TMP, fault), "ioerror", cu)
    ELSE
    Bind(read_users(F), LAMBDA dec :
    Bind(simple_hash(new_password), LAMBDA new_hash :
         IF FirstCrash(dec) # 0 THEN Outcome(fopen_w(F, USERS_TMP), "crash", cu)
         ELSE replace_file(F, USERS_FILE, USERS_TMP,
                           [i \in DOMAIN dec |->
                               user_line(IF dec[i].u.id = cu.id
                                         THEN [dec[i].u EXCEPT !.password_hash = new_hash]
                                         ELSE dec[i].u)],
                           fault, "ok",
                           IF \E i \in DOMAIN dec : dec[i].u.id = cu.id
                           THEN [cu EXCEPT !.password_hash = new_hash] ELSE cu)))

(* ------------------------------ time --------------------------------- *)
\* now_str: strftime of time(NULL); one tick per operation
now_str(t) == <<"T">> \o NatStr(t)

(* ----------------- enhanced: products, customers, sales --------------- *)
Product(id, name, category, brand, cost, sell, stock, min) ==
    [id |-> id, name |-> name, category |-> category, brand |-> brand,
     cost_price |-> cost, sell_price |-> sell, stock |-> stock, min_stock_level |-> min]

NoProduct == Product(0, <<>>, <<>>, <<>>, 0, 0, 0, 0)

Quoted(s) == <<QUOTE>> \o s \o <<QUOTE>>

\* "%d,\"%s\",\"%s\",\"%s\",%.2f,%.2f,%d,%d\n"
enh_product_line(p) ==
    Concat(<<FmtD(p.id), <<COMMA>>, Quoted(p.name), <<COMMA>>, Quoted(p.category), <<COMMA>>,
             Quoted(p.brand), <<COMMA>>, FmtF2(p.cost_price), <<COMMA>>, FmtF2(p.sell_price),
             <<COMMA>>, FmtD(p.stock), <<COMMA>>, FmtD(p.min_stock_level), <<NL>>>>)

\* the eight parse_csv_field calls on a products line
enh_read_product(line) ==
    Bind([k \in 0..7 |-> parse_csv_field(line, k)], LAMBDA f :
         IF \E k \in 0..7 : f[k] = NULL THEN [crash |-> TRUE, p |-> NoProduct]
         ELSE [crash |-> FALSE,
               p |-> Product(atoi(f[0]), f[1], f[2], f[3], atof(f[4]), atof(f[5]),
                             atoi(f[6]), atoi(f[7]))])

\* "%d,\"%s\",\"%s\",\"%s\",\"%s\"\n"
enh_customer_line(id, name, phone, email, address) ==
    Concat(<<FmtD(id), <<COMMA>>, Quoted(name), <<COMMA>>, Quoted(phone), <<COMMA>>,
             Quoted(email), <<COMMA>>, Quoted(address), <<NL>>>>)

\* "%d,%d,%d,%d,%.2f,\"%s\",\"%s\"\n"
enh_sale_line(id, product_id, customer_id, quantity, total_price, date, cashier) ==
    Concat(<<FmtD(id), <<COMMA>>, FmtD(product_id), <<COMMA>>, FmtD(customer_id), <<COMMA>>,
             FmtD(quantity), <<COMMA>>, FmtF2(total_price), <<COMMA>>, Quoted(date),
             <<COMMA>>, Quoted(cashier), <<NL>>>>)

\* list_products: "ok", or "crash" at the first line with a missing field
enh_list_products(F) ==
    IF ~file_exists(F, PRODUCTS_FILE) THEN "ok"
    ELSE IF \E i \in 1..Len(F[PRODUCTS_FILE].lines) :
                enh_read_product(F[PRODUCTS_FILE].lines[i]).crash
         THEN "crash" ELSE "ok"

\* a find_*_by_id scan over `file` whose records have n + 1 fields:
\* field 0 of each line up to the first match, then fields 1..n of the match
enh_find(F, file, id, n) ==
    IF ~file_exists(F, file) THEN [res |-> "none", line |-> NULL]
    ELSE
    Bind(F[file].lines, LAMBDA ls :
    Bind([i \in 1..Len(ls) |-> parse_csv_field(ls[i], 0)], LAMBDA id_str :
    Bind({i \in 1..Len(ls) : id_str[i] = NULL \/ atoi(id_str[i]) = id}, LAMBDA stop :
         IF stop = {} THEN [res |-> "none", line |-> NULL]
         ELSE IF id_str[First(stop)] = NULL
                 \/ \E k \in 1..n : parse_csv_field(ls[First(stop)], k) = NULL
              THEN [res |-> "crash", line |-> NULL]
         ELSE [res |-> "found", line |-> ls[First(stop)]])))

enh_find_product_by_id(F, id) == enh_find(F, PRODUCTS_FILE, id, 7)
\* a slip: the customer is taken as found without a scan of customers.csv
find_customer_unchecked(F, id) == [res |-> "found", line |-> NULL]

enh_find_customer_by_id(F, id) == enh_find(F, CUSTOMERS_FILE, id, 4)

\* p.stock += delta; if (p.stock < 0) p.stock = 0;
new_stock(stock, delta) == IF Add32(stock, delta) < 0 THEN 0 ELSE Add32(stock, delta)

\* void: the caller learns nothing ("silent") unless the process dies
enh_update_product_stock(F, product_id, delta, fault) ==
    IF ~file_exists(F, PRODUCTS_FILE) THEN Outcome(F, "silent", NoUser)
    ELSE IF fault = "open_tmp" THEN Outcome(F, "silent", NoUser)
    ELSE
    Bind([i \in 1..Len(F[PRODUCTS_FILE].lines) |-> enh_read_product(F[PRODUCTS_FILE].lines[i])],
         LAMBDA dec :
         IF FirstCrash(dec) # 0 THEN Outcome(fopen_w(F, PRODUCTS_TMP), "crash", NoUser)
         ELSE IF \A i \in DOMAIN dec : dec[i].p.id # product_id
              THEN discard_tmp(F, PRODUCTS_TMP, "silent", NoUser)
         ELSE replace_file(F, PRODUCTS_FILE, PRODUCTS_TMP,
                           [i \in DOMAIN dec |->
                               enh_product_line(
                                   IF dec[i].p.id = product_id
                                   THEN [dec[i].p EXCEPT !.stock = new_stock(@, delta)]
                                   ELSE dec[i].p)],
                           fault, "silent", NoUser))

enh_add_product(cu, F, name, category, brand, cost, sell, stock, min, fault) ==
    LET id == enh_next_id_from_file(F, PRODUCTS_FILE)
    IN  IF cu.can_manage_products = 0 THEN Outcome(F, "denied", cu)
        ELSE IF fault = "open_append" THEN Outcome(F, "ioerror", cu)
        ELSE Outcome(fappend(F, PRODUCTS_FILE,
                             enh_product_line(Product(id, name, category, brand, cost, sell,
                                                      stock, min))), "ok", cu)

\* a slip: the can_manage_customers test is missing
add_customer_unchecked(cu, F, name, phone, email, address, fault) ==
    LET id == enh_next_id_from_file(F, CUSTOMERS_FILE)
    IN  IF fault = "open_append" THEN Outcome(F, "ioerror", cu)
        ELSE Outcome(fappend(F, CUSTOMERS_FILE,
                             enh_customer_line(id, name, phone, email, address)), "ok", cu)

enh_add_customer(cu, F, name, phone, email, address, fault) ==
    LET id == enh_next_id_from_file(F, CUSTOMERS_FILE)
    IN  IF cu.can_manage_customers = 0 THEN Outcome(F, "denied", cu)
        ELSE IF fault = "open_append" THEN Outcome(F, "ioerror", cu)
        ELSE Outcome(fappend(F, CUSTOMERS_FILE,
                             enh_customer_line(id, name, phone, email, address)), "ok", cu)

\* make_sale; `cust` holds what the user types if add_customer is entered,
\* fault "open_customers" is add_customer's fopen failing
enh_make_sale(cu, F, t, pid, cid_in, qty, cashier, cust, fault) ==
    IF cu.can_manage_sales = 0 THEN Outcome(F, "denied", cu)
    ELSE IF ~file_exists(F, PRODUCTS_FILE) THEN Outcome(F, "noproducts", cu)
    ELSE IF enh_list_products(F) = "crash" THEN Outcome(F, "crash", cu)
    ELSE
    Bind(enh_find_product_by_id(F, pid), LAMBDA fp :
         IF fp.res = "crash" THEN Outcome(F, "crash", cu)
         ELSE IF fp.res = "none" THEN Outcome(F, "notfound", cu)
         ELSE
    Bind(enh_read_product(fp.line).p, LAMBDA p :
    Bind(IF cid_in = 0
         THEN enh_add_customer(cu, F, cust, <<"p">>, <<"e">>, cust,
                               IF fault = "open_customers" THEN "open_append" ELSE "none").fs
         ELSE F, LAMBDA F1 :
    Bind(IF cid_in = 0 THEN enh_next_id_from_file(F1, CUSTOMERS_FILE) - 1 ELSE cid_in,
         LAMBDA cid :
    Bind(enh_find_customer_by_id(F1, cid).res, LAMBDA fc :
         IF fc = "crash" THEN Outcome(F1, "crash", cu)
         ELSE IF fc = "none" THEN Outcome(F1, "notfound", cu)
         ELSE IF p.stock < 1 THEN Outcome(F1, "hang", cu)
         ELSE IF qty < 1 \/ qty > p.stock THEN Outcome(F1, "reprompt", cu)
         ELSE IF fault = "open_append" THEN Outcome(F1, "ioerror", cu)
         ELSE
    Bind(enh_update_product_stock(
             fappend(F1, SALES_FILE,
                     enh_sale_line(enh_next_id_from_file(F, SALES_FILE), pid, cid, qty,
                                   float_times(p.sell_price, qty), now_str(t), cashier)),
             pid, 0 - qty, fault), LAMBDA up :
         Outcome(up.fs, IF up.res = "crash" THEN "crash" ELSE "ok", cu)))))))

(* ----------------- baseline: products, customers, sales --------------- *)
\* tok ? tok : ""
OrEmpty(tok) == IF tok = NULL THEN <<>> ELSE tok
OrZeroI(tok) == IF tok = NULL THEN 0 ELSE atoi(tok)
OrZeroF(tok) == IF tok = NULL THEN 0 ELSE atof(tok)

\* the strtok calls of one scanned line: n tokens, the first n - 1 cut at ",",
\* the last one at the delimiters `lastd`
RECURSIVE Tokens(_, _, _, _)
Tokens(line, pos, n, lastd) ==
    IF n = 0 THEN <<>>
    ELSE Bind(strtok(line, pos, IF n = 1 THEN lastd ELSE {COMMA}), LAMBDA t :
              <<t.tok>> \o Tokens(line, t.pos, n - 1, lastd))

\* "%d,%s,%s,%s,%.2f,%.2f,%d\n"
base_product_line(p) ==
    Concat(<<FmtD(p.id), <<COMMA>>, p.name, <<COMMA>>, p.category, <<COMMA>>, p.brand,
             <<COMMA>>, FmtF2(p.cost_price), <<COMMA>>, FmtF2(p.sell_price), <<COMMA>>,
             FmtD(p.stock), <<NL>>>>)

\* a products line as list_products, find_product_by_id and
\* update_product_stock read it; skip: strtok found no first token
base_read_product(line) ==
    Bind(Tokens(line, 1, 7, {COMMA, NL}), LAMBDA k :
         [skip |-> k[1] = NULL,
          p |-> Product(OrZeroI(k[1]), OrEmpty(k[2]), OrEmpty(k[3]), OrEmpty(k[4]),
                        OrZeroF(k[5]), OrZeroF(k[6]), OrZeroI(k[7]), 0)])

\* "%d,%s,%s,%s\n"
base_customer_line(id, name, phone, email) ==
    Concat(<<FmtD(id), <<COMMA>>, name, <<COMMA>>, phone, <<COMMA>>, email, <<NL>>>>)

\* "%d,%d,%d,%d,%.2f,%s,%s\n"
base_sale_line(id, product_id, customer_id, quantity, total_price, date, cashier) ==
    Concat(<<FmtD(id), <<COMMA>>, FmtD(product_id), <<COMMA>>, FmtD(customer_id), <<COMMA>>,
             FmtD(quantity), <<COMMA>>, FmtF2(total_price), <<COMMA>>, date, <<COMMA>>,
             cashier, <<NL>>>>)

\* find_*_by_id: the first line whose first token reads as `id`
base_find(F, file, id) ==
    IF ~file_exists(F, file) THEN [res |-> "none", line |-> NULL]
    ELSE
    Bind(F[file].lines, LAMBDA ls :
    Bind({i \in 1..Len(ls) : base_line_id(ls[i]) = id
                             /\ strtok(ls[i], 1, {COMMA}).tok # NULL}, LAMBDA hit :
         IF hit = {} THEN [res |-> "none", line |-> NULL]
         ELSE [res |-> "found", line |-> ls[First(hit)]]))

base_find_product_by_id(F, id) == base_find(F, PRODUCTS_FILE, id)
base_find_customer_by_id(F, id) == base_find(F, CUSTOMERS_FILE, id)

\* the temp stream is not checked: with fault "open_tmp" the first fprintf or
\* the fclose gets a NULL stream and the process dies
base_update_product_stock(F, product_id, delta, fault) ==
    IF ~file_exists(F, PRODUCTS_FILE) THEN Outcome(F, "silent", NoUser)
    ELSE IF fault = "open_tmp" THEN Outcome(F, "crash", NoUser)
    ELSE
    Bind([i \in 1..Len(F[PRODUCTS_FILE].lines) |->
             base_read_product(F[PRODUCTS_FILE].lines[i])], LAMBDA dec :
         replace_file(F, PRODUCTS_FILE, PRODUCTS_TMP,
                      SelectSeq([i \in DOMAIN dec |->
                                    IF dec[i].skip THEN NULL
                                    ELSE base_product_line(
                                             IF dec[i].p.id = product_id
                                             THEN [dec[i].p EXCEPT !.stock = new_stock(@, delta)]
                                             ELSE dec[i].p)],
                                LAMBDA l : l # NULL),
                      fault, "silent", NoUser))

base_add_product(F, name, category, brand, cost, sell, stock, fault) ==
    LET id == base_next_id_from_file(F, PRODUCTS_FILE)
    IN  IF fault = "open_append" THEN Outcome(F, "ioerror", NoUser)
        ELSE Outcome(fappend(F, PRODUCTS_FILE,
                             base_product_line(Product(id, name, category, brand, cost, sell,
                                                       stock, 0))), "ok", NoUser)

base_add_customer(F, name, phone, email, fault) ==
    LET id == base_next_id_from_file(F, CUSTOMERS_FILE)
    IN  IF fault = "open_append" THEN Outcome(F, "ioerror", NoUser)
        ELSE Outcome(fappend(F, CUSTOMERS_FILE, base_customer_line(id, name, phone, email)),
                     "ok", NoUser)

\* the "Customer ID (or 0 to add new)" step shared by make_sale,
\* create_repair_job and create_assembly_order
base_pick_customer(F, cid_in, cust, fault) ==
    Bind(IF cid_in = 0
         THEN base_add_customer(F, cust, <<"p">>, <<"e">>,
                                IF fault = "open_customers" THEN "open_append" ELSE "none").fs
         ELSE F, LAMBDA F1 :
    Bind(IF cid_in = 0 THEN base_next_id_from_file(F1, CUSTOMERS_FILE) - 1 ELSE cid_in,
         LAMBDA cid :
         [fs |-> F1, cid |-> cid, found |-> base_find_customer_by_id(F1, cid).res = "found"]))

base_make_sale(F, t, pid, cid_in, qty, cashier, cust, fault) ==
    IF ~file_exists(F, PRODUCTS_FILE) THEN Outcome(F, "noproducts", NoUser)
    ELSE IF ~file_exists(F, CUSTOMERS_FILE) THEN Outcome(F, "nocustomers", NoUser)
    ELSE
    Bind(base_find_product_by_id(F, pid), LAMBDA fp :
         IF fp.res = "none" THEN Outcome(F, "notfound", NoUser)
         ELSE
    Bind(base_read_product(fp.line).p, LAMBDA p :
    Bind(base_pick_customer(F, cid_in, cust, fault), LAMBDA pc1 :
         IF ~pc1.found THEN Outcome(pc1.fs, "notfound", NoUser)
         ELSE IF qty > p.stock THEN Outcome(pc1.fs, "invalid", NoUser)
         ELSE IF fault = "open_append" THEN Outcome(pc1.fs, "ioerror", NoUser)
         ELSE
    Bind(base_update_product_stock(
             fappend(pc1.fs, SALES_FILE,
                     base_sale_line(base_next_id_from_file(F, SALES_FILE), pid, pc1.cid, qty,
                                    float_times(p.sell_price, qty), now_str(t), cashier)),
             pid, 0 - qty, fault), LAMBDA up :
         Outcome(up.fs, IF up.res = "crash" THEN "crash" ELSE "ok", NoUser)))))

(* -------------------- baseline: repairs, assemblies ------------------- *)
Received == <<"R", "e", "c", "e", "i", "v", "e", "d">>
InProgress == <<"I", "n", " ", "P", "r", "o", "g", "r", "e", "s", "s">>
Completed == <<"C", "o", "m", "p", "l", "e", "t", "e", "d">>
Collected == <<"C", "o", "l", "l", "e", "c", "t", "e", "d">>
Pending == <<"P", "e", "n", "d", "i", "n", "g">>
Assembled == <<"A", "s", "s", "e", "m", "b", "l", "e", "d">>
Delivered == <<"D", "e", "l", "i", "v", "e", "r", "e", "d">>

Repair(id, customer_id, device, problem, status, cost, received, completed) ==
    [id |-> id, customer_id |-> customer_id, device |-> device, problem |-> problem,
     status |-> status, cost_estimate |-> cost, date_received |-> received,
     date_completed |-> completed]

\* "%d,%d,%s,%s,%s,%.2f,%s,%s\n"
repair_line(r) ==
    Concat(<<FmtD(r.id), <<COMMA>>, FmtD(r.customer_id), <<COMMA>>, r.device, <<COMMA>>,
             r.problem, <<COMMA>>, r.status, <<COMMA>>, FmtF2(r.cost_estimate), <<COMMA>>,
             r.date_received, <<COMMA>>, r.date_completed, <<NL>>>>)

read_repair(line) ==
    Bind(Tokens(line, 1, 8, {NL}), LAMBDA k :
         [skip |-> k[1] = NULL,
          r |-> Repair(OrZeroI(k[1]), OrZeroI(k[2]), OrEmpty(k[3]), OrEmpty(k[4]),
                       OrEmpty(k[5]), OrZeroF(k[6]), OrEmpty(k[7]), OrEmpty(k[8]))])

Assembly(id, customer_id, description, price, status, date) ==
    [id |-> id, customer_id |-> customer_id, description |-> description,
     price |-> price, status |-> status, date |-> date]

\* "%d,%d,%s,%.2f,%s,%s\n"
assembly_line(a) ==
    Concat(<<FmtD(a.id), <<COMMA>>, FmtD(a.customer_id), <<COMMA>>, a.description, <<COMMA>>,
             FmtF2(a.price), <<COMMA>>, a.status, <<COMMA>>, a.date, <<NL>>>>)

read_assembly(line) ==
    Bind(Tokens(line, 1, 6, {NL}), LAMBDA k :
         [skip |-> k[1] = NULL,
          a |-> Assembly(OrZeroI(k[1]), OrZeroI(k[2]), OrEmpty(k[3]), OrZeroF(k[4]),
                         OrEmpty(k[5]), OrEmpty(k[6]))])

create_repair_job(F, t, cid_in, device, problem, cost, cust, fault) ==
    Bind(base_pick_customer(F, cid_in, cust, fault), LAMBDA pc1 :
         IF ~pc1.found THEN Outcome(pc1.fs, "notfound", NoUser)
         ELSE IF fault = "open_append" THEN Outcome(pc1.fs, "ioerror", NoUser)
         ELSE Outcome(fappend(pc1.fs, REPAIRS_FILE,
                              repair_line(Repair(base_next_id_from_file(F, REPAIRS_FILE),
                                                 pc1.cid, device, problem, Received, cost,
                                                 now_str(t), <<>>))),
                      "ok", NoUser))

\* the status typed replaces the old one; "Completed" stamps date_completed
set_repair_status(r, new_status, t) ==
    [r EXCEPT !.status = new_status,
              !.date_completed = IF new_status = Completed THEN now_str(t) ELSE @]

\* the temp stream is not checked: with fault "open_tmp" fprintf or fclose gets
\* a NULL stream and the process dies
update_repair_status(F, t, id, new_status, fault) ==
    IF ~file_exists(F, REPAIRS_FILE) THEN Outcome(F, "norecords", NoUser)
    ELSE IF fault = "open_tmp" THEN Outcome(F, "crash", NoUser)
    ELSE
    Bind([i \in 1..Len(F[REPAIRS_FILE].lines) |-> read_repair(F[REPAIRS_FILE].lines[i])],
         LAMBDA dec :
         IF \A i \in DOMAIN dec : dec[i].skip \/ dec[i].r.id # id
         THEN discard_tmp(F, REPAIRS_TMP, "notfound", NoUser)
         ELSE replace_file(F, REPAIRS_FILE, REPAIRS_TMP,
                           SelectSeq([i \in DOMAIN dec |->
                                         IF dec[i].skip THEN NULL
                                         ELSE repair_line(
                                                  IF dec[i].r.id = id
                                                  THEN set_repair_status(dec[i].r, new_status, t)
                                                  ELSE dec[i].r)],
                                     LAMBDA l : l # NULL),
                           fault, "ok", NoUser))

create_assembly_order(F, t, cid_in, description, price, cust, fault) ==
    Bind(base_pick_customer(F, cid_in, cust, fault), LAMBDA pc1 :
         IF ~pc1.found THEN Outcome(pc1.fs, "notfound", NoUser)
         ELSE IF fault = "open_append" THEN Outcome(pc1.fs, "ioerror", NoUser)
         ELSE Outcome(fappend(pc1.fs, ASSEMBLIES_FILE,
                              assembly_line(Assembly(base_next_id_from_file(F, ASSEMBLIES_FILE),
                                                     pc1.cid, description, price, Pending,
                                                     now_str(t)))),
                      "ok", NoUser))

update_assembly_status(F, id, new_status, fault) ==
    IF ~file_exists(F, ASSEMBLIES_FILE) THEN Outcome(F, "norecords", NoUser)
    ELSE IF fault = "open_tmp" THEN Outcome(F, "crash", NoUser)
    ELSE
    Bind([i \in 1..Len(F[ASSEMBLIES_FILE].lines) |->
             read_assembly(F[ASSEMBLIES_FILE].lines[i])], LAMBDA dec :
         IF \A i \in DOMAIN dec : dec[i].skip \/ dec[i].a.id # id
         THEN discard_tmp(F, ASSEMBLIES_TMP, "notfound", NoUser)
         ELSE replace_file(F, ASSEMBLIES_FILE, ASSEMBLIES_TMP,
                           SelectSeq([i \in DOMAIN dec |->
                                         IF dec[i].skip THEN NULL
                                         ELSE assembly_line(
                                                  IF dec[i].a.id = id
                                                  THEN [dec[i].a EXCEPT !.status = new_status]
                                                  ELSE dec[i].a)],
                                     LAMBDA l : l # NULL),
                           fault, "ok", NoUser))

(* --------------------- baseline: authentication ----------------------- *)
\* "1,admin,admin\n"
base_ensure_default_user(F) ==
    IF ~file_exists(F, USERS_FILE)
    THEN fwrite_all(F, USERS_FILE,
                    <<Concat(<<FmtD(1), <<COMMA>>, admin, <<COMMA>>, admin, <<NL>>>>)>>)
    ELSE F

base_login(F, username, password) ==
    Bind(base_ensure_default_user(F), LAMBDA F1 :
    Bind([i \in 1..Len(F1[USERS_FILE].lines) |->
             Tokens(F1[USERS_FILE].lines[i], 1, 3, {COMMA, NL})], LAMBDA k :
         Outcome(F1,
                 IF \E i \in DOMAIN k :
                        /\ k[i][1] # NULL /\ k[i][2] # NULL /\ k[i][3] # NULL
                        /\ k[i][2] = username /\ k[i][3] = password
                 THEN "ok" ELSE "invalid", NoUser)))

(* --------------------------- input sets ------------------------------ *)
\* add_product of the enhanced program: get_validated_int(.., 0, 10000)
EnhStockInputs == {0, 5}
\* add_product of the baseline program: scanf("%d") takes any int
BaseStockInputs == {0 - 1, 0, 5}
\* product ids typed in make_sale
PidInputs == 1..MaxRecs
\* customer ids typed in make_sale, create_repair_job, create_assembly_order
CidInputs == 0..MaxRecs
EnhQtyInputs == {3, 5, 7}
BaseQtyInputs == {0 - 1, 0, 3, 7}
DeltaInputs == {0 - 7, 0 - 2, 3, IntMax}
CostInput == 500
SellInput == 999
RepairStatusInputs == {InProgress, Completed, <<>>, <<"x", ",", "y">>}
AssemblyStatusInputs == {Assembled, <<>>, <<"x", ",", "y">>}
SaleFaults == {"none", "open_append", "open_customers", "open_tmp", "write", "crash"}
CreateFaults == {"none", "open_append", "open_customers"}

(* ------------- history: the values an encoder was given -------------- *)
\* the values add_user prints, field by field
user_fields(id, username, password, g) ==
    <<FmtD(id), username, simple_hash(password), FmtD(g[1]), FmtD(g[2]), FmtD(g[3]),
      FmtD(g[4]), FmtD(g[5]), FmtD(1)>>

\* the values add_product prints for the inputs of call_enh_add_product
product_fields(id, name, stock) ==
    <<FmtD(id), name, <<"c">>, <<"b">>, FmtF2(CostInput), FmtF2(SellInput), FmtD(stock),
      FmtD(1)>>

\* the values add_customer prints for the inputs of call_enh_add_customer
customer_fields(id, name, address) == <<FmtD(id), name, <<"p">>, <<"e">>, address>>

(* ------------------------------ actions ------------------------------ *)
Init ==
    /\ variant \in {"base", "enh"}
    /\ pc = "login"
    /\ fs = NoFiles
    /\ current_user = NoUser
    /\ clock = 0
    /\ pre = NoFiles
    /\ last = Op("start", 0, 0, "none", "none")
    /\ issued = <<>>
    /\ faulted = FALSE

Died(res) == res \in {"crash", "hang"}

\* one menu operation, recorded as `op`, ran to its end (or to the death of
\* the process)
Ended(op, r, cu) ==
    /\ r.res # "reprompt"
    /\ fs' = r.fs
    /\ pre' = fs
    /\ last' = op
    /\ clock' = clock + 1
    /\ pc' = IF Died(r.res) THEN "login" ELSE "menu"
    /\ current_user' = IF Died(r.res) THEN NoUser ELSE cu
    /\ variant' = variant
    /\ faulted' = (faulted \/ op.fault # "none")

Done(name, id, arg, fault, r, cu) == Ended(Op(name, id, arg, fault, r.res), r, cu)

\* make_sale ended: the product id, the quantity and the customer id typed
Sold(pid, cid, qty, fault, r, cu) ==
    Ended([op |-> "make_sale", id |-> pid, arg |-> qty, fault |-> fault, res |-> r.res,
           cid |-> cid], r, cu)

\* a fault counts only in an operation that meets it: one that ends
\* differently than it does without the fault
Met(fault, r, r0) == fault = "none" \/ r # r0

AtMenu(v) == pc = "menu" /\ variant = v /\ clock < MaxOps
Room(file) == Len(fs[file].lines) < MaxRecs

\* the program is started: login(), which ends the process when it fails
call_enh_login ==
    /\ pc = "login" /\ variant = "enh"
    /\ \E in \in LoginInputs :
       \E r \in {enh_login(fs, in[1], in[2])} :
          /\ fs' = r.fs
          /\ pre' = fs
          /\ last' = Op("login", r.cu.id, 0, "none", r.res)
          /\ pc' = IF r.res = "ok" THEN "menu" ELSE "login"
          /\ current_user' = r.cu
          /\ issued' = IF file_exists(fs, USERS_FILE) THEN issued ELSE Append(issued, 1)
    /\ UNCHANGED <<variant, clock, faulted>>

call_base_login ==
    /\ pc = "login" /\ variant = "base"
    /\ \E in \in LoginInputs :
       \E r \in {base_login(fs, in[1], in[2])} :
          /\ fs' = r.fs
          /\ pre' = fs
          /\ last' = Op("login", 0, 0, "none", r.res)
          /\ pc' = IF r.res = "ok" THEN "menu" ELSE "login"
    /\ UNCHANGED <<variant, clock, current_user, issued, faulted>>

\* menu choice 7: the process ends
call_exit ==
    /\ pc = "menu" /\ clock < MaxOps
    /\ Done("exit", 0, 0, "none", Outcome(fs, "hang", NoUser), NoUser)
    /\ UNCHANGED issued

\* standard input ends while the program waits at a numeric prompt:
\* get_validated_int prints "Error reading input." and asks again, for ever;
\* the menu loop of the baseline program does the same after scanf fails
call_end_of_input ==
    /\ pc = "menu" /\ clock < MaxOps
    /\ Done("end_of_input", 0, 0, "none", Outcome(fs, "hang", NoUser), NoUser)
    /\ UNCHANGED issued

call_add_user ==
    /\ AtMenu("enh") /\ Room(USERS_FILE)
    /\ \E username \in NonEmptyTexts, password \in NewPasswordInputs, g \in FlagInputs :
       \E r0 \in {add_user(current_user, fs, username, password, g, "none")}, fault \in AppendFaults :
       \E r \in {IF fault = "none" THEN r0
                 ELSE add_user(current_user, fs, username, password, g, fault)} :
          /\ Met(fault, r, r0)
          /\ Done("add_user", enh_next_id_from_file(fs, USERS_FILE),
                  user_fields(enh_next_id_from_file(fs, USERS_FILE), username, password, g),
                  fault, r, r.cu)
          /\ issued' = IF r.res = "ok"
                       THEN Append(issued, enh_next_id_from_file(fs, USERS_FILE))
                       ELSE issued

call_delete_user ==
    /\ AtMenu("enh")
    /\ \E user_id \in IdInputs, confirm \in BOOLEAN :
       \E r0 \in {delete_user(current_user, fs, user_id, confirm, "none")}, fault \in MutatorFaults :
       \E r \in {IF fault = "none" THEN r0
                 ELSE delete_user(current_user, fs, user_id, confirm, fault)} :
          /\ Met(fault, r, r0)
          /\ Done("delete_user", user_id, IF confirm THEN 1 ELSE 0, fault, r, r.cu)
    /\ UNCHANGED issued

call_edit_user_permissions ==
    /\ AtMenu("enh")
    /\ \E user_id \in IdInputs, g \in FlagInputs, a \in {0, 1} :
       \E r0 \in {edit_user_permissions(current_user, fs, user_id, g, a, "none")}, fault \in MutatorFaults :
       \E r \in {IF fault = "none" THEN r0
                 ELSE edit_user_permissions(current_user, fs, user_id, g, a, fault)} :
          /\ Met(fault, r, r0)
          /\ Done("edit_user_permissions", user_id, 0, fault, r, r.cu)
    /\ UNCHANGED issued

call_change_password ==
    /\ AtMenu("enh")
    /\ \E old \in {admin, pass}, new \in NewPasswordInputs :
       \E r0 \in {change_password(current_user, fs, old, new, "none")}, fault \in MutatorFaults :
       \E r \in {IF fault = "none" THEN r0
                 ELSE change_password(current_user, fs, old, new, fault)} :
          /\ Met(fault, r, r0)
          /\ Done("change_password", current_user.id, 0, fault, r, r.cu)
    /\ UNCHANGED issued

call_enh_add_product ==
    /\ AtMenu("enh") /\ Room(PRODUCTS_FILE)
    /\ \E name \in NonEmptyTexts, stock \in EnhStockInputs :
       \E r0 \in {enh_add_product(current_user, fs, name, <<"c">>, <<"b">>, CostInput,
                                  SellInput, stock, 1, "none")}, fault \in AppendFaults :
       \E r \in {IF fault = "none" THEN r0
                 ELSE enh_add_product(current_user, fs, name, <<"c">>, <<"b">>, CostInput,
                                  SellInput, stock, 1, fault)} :
          /\ Met(fault, r, r0)
          /\ Done("add_product", enh_next_id_from_file(fs, PRODUCTS_FILE),
                  product_fields(enh_next_id_from_file(fs, PRODUCTS_FILE), name, stock),
                  fault, r, r.cu)
    /\ UNCHANGED issued

call_enh_add_customer ==
    /\ AtMenu("enh") /\ Room(CUSTOMERS_FILE)
    /\ \E name \in NonEmptyTexts, address \in NonEmptyTexts :
       \E r0 \in {enh_add_customer(current_user, fs, name, <<"p">>, <<"e">>, address, "none")}, fault \in AppendFaults :
       \E r \in {IF fault = "none" THEN r0
                 ELSE enh_add_customer(current_user, fs, name, <<"p">>, <<"e">>, address, fault)} :
          /\ Met(fault, r, r0)
          /\ Done("add_customer", enh_next_id_from_file(fs, CUSTOMERS_FILE),
                  customer_fields(enh_next_id_from_file(fs, CUSTOMERS_FILE), name, address),
                  fault, r, r.cu)
    /\ UNCHANGED issued

call_enh_make_sale ==
    /\ AtMenu("enh") /\ Room(SALES_FILE) /\ Room(CUSTOMERS_FILE)
    /\ \E pid \in PidInputs, cid \in CidInputs, qty \in EnhQtyInputs :
       \E r0 \in {enh_make_sale(current_user, fs, clock, pid, cid, qty, <<"k">>, <<"n">>,
                                "none")}, fault \in SaleFaults :
       \E r \in {IF fault = "none" THEN r0
                 ELSE enh_make_sale(current_user, fs, clock, pid, cid, qty, <<"k">>, <<"n">>,
                                fault)} :
          /\ Met(fault, r, r0)
          /\ Sold(pid, cid, qty, fault, r, r.cu)
    /\ UNCHANGED issued

call_base_add_product ==
    /\ AtMenu("base") /\ Room(PRODUCTS_FILE)
    /\ \E name \in TextInputs \ {<<"a", "\"">>}, stock \in BaseStockInputs :
       \E r0 \in {base_add_product(fs, name, <<"c">>, <<"b">>, CostInput, SellInput, stock,
                                   "none")}, fault \in AppendFaults :
       \E r \in {IF fault = "none" THEN r0
                 ELSE base_add_product(fs, name, <<"c">>, <<"b">>, CostInput, SellInput, stock,
                                   fault)} :
          /\ Met(fault, r, r0)
          /\ Done("add_product", base_next_id_from_file(fs, PRODUCTS_FILE), stock, fault, r,
                  current_user)
    /\ UNCHANGED issued

call_base_add_customer ==
    /\ AtMenu("base") /\ Room(CUSTOMERS_FILE)
    /\ \E name \in TextInputs \ {<<"a", "\"">>} :
       \E r0 \in {base_add_customer(fs, name, <<"p">>, <<"e">>, "none")}, fault \in AppendFaults :
       \E r \in {IF fault = "none" THEN r0
                 ELSE base_add_customer(fs, name, <<"p">>, <<"e">>, fault)} :
          /\ Met(fault, r, r0)
          /\ Done("add_customer", base_next_id_from_file(fs, CUSTOMERS_FILE), 0, fault, r,
                  current_user)
    /\ UNCHANGED issued

call_base_make_sale ==
    /\ AtMenu("base") /\ Room(SALES_FILE) /\ Room(CUSTOMERS_FILE)
    /\ \E pid \in PidInputs, cid \in CidInputs, qty \in BaseQtyInputs :
       \E r0 \in {base_make_sale(fs, clock, pid, cid, qty, <<"k">>, <<"n">>, "none")}, fault \in SaleFaults :
       \E r \in {IF fault = "none" THEN r0
                 ELSE base_make_sale(fs, clock, pid, cid, qty, <<"k">>, <<"n">>, fault)} :
          /\ Met(fault, r, r0)
          /\ Sold(pid, cid, qty, fault, r, current_user)
    /\ UNCHANGED issued

call_create_repair_job ==
    /\ AtMenu("base") /\ Room(REPAIRS_FILE) /\ Room(CUSTOMERS_FILE)
    /\ \E cid \in CidInputs, device \in TextInputs \ {<<"a", "\"">>} :
       \E r0 \in {create_repair_job(fs, clock, cid, device, <<"q">>, CostInput, <<"n">>,
                                    "none")}, fault \in CreateFaults :
       \E r \in {IF fault = "none" THEN r0
                 ELSE create_repair_job(fs, clock, cid, device, <<"q">>, CostInput, <<"n">>,
                                    fault)} :
          /\ Met(fault, r, r0)
          /\ Done("create_repair_job", base_next_id_from_file(fs, REPAIRS_FILE), 0, fault, r,
                  current_user)
    /\ UNCHANGED issued

call_update_repair_status ==
    /\ AtMenu("base")
    /\ \E id \in IdInputs, new_status \in RepairStatusInputs :
       \E r0 \in {update_repair_status(fs, clock, id, new_status, "none")}, fault \in MutatorFaults :
       \E r \in {IF fault = "none" THEN r0
                 ELSE update_repair_status(fs, clock, id, new_status, fault)} :
          /\ Met(fault, r, r0)
          /\ Done("update_repair_status", id, new_status, fault, r, current_user)
    /\ UNCHANGED issued

call_create_assembly_order ==
    /\ AtMenu("base") /\ Room(ASSEMBLIES_FILE) /\ Room(CUSTOMERS_FILE)
    /\ \E cid \in CidInputs, description \in TextInputs \ {<<"a", "\"">>} :
       \E r0 \in {create_assembly_order(fs, clock, cid, description, CostInput, <<"n">>,
                                        "none")}, fault \in CreateFaults :
       \E r \in {IF fault = "none" THEN r0
                 ELSE create_assembly_order(fs, clock, cid, description, CostInput, <<"n">>,
                                        fault)} :
          /\ Met(fault, r, r0)
          /\ Done("create_assembly_order", base_next_id_from_file(fs, ASSEMBLIES_FILE), 0,
                  fault, r, current_user)
    /\ UNCHANGED issued

call_update_assembly_status ==
    /\ AtMenu("base")
    /\ \E id \in IdInputs, new_status \in AssemblyStatusInputs :
       \E r0 \in {update_assembly_status(fs, id, new_status, "none")}, fault \in MutatorFaults :
       \E r \in {IF fault = "none" THEN r0
                 ELSE update_assembly_status(fs, id, new_status, fault)} :
          /\ Met(fault, r, r0)
          /\ Done("update_assembly_status", id, new_status, fault, r, current_user)
    /\ UNCHANGED issued

\* the operations a user of either program can choose
Next ==
    \/ call_enh_login
    \/ call_base_login
    \/ call_exit
    \/ call_end_of_input
    \/ call_add_user
    \/ call_delete_user
    \/ call_edit_user_permissions
    \/ call_change_password
    \/ call_enh_add_product
    \/ call_enh_add_customer
    \/ call_enh_make_sale
    \/ call_base_add_product
    \/ call_base_add_customer
    \/ call_base_make_sale
    \/ call_create_repair_job
    \/ call_update_repair_status
    \/ call_create_assembly_order
    \/ call_update_assembly_status

Spec == Init /\ [][Next]_vars

(* ------- update_product_stock called with any product id and delta ---- *)
\* the id of each record of a file, as the running program reads it
Ids(F, file) ==
    [i \in 1..Len(F[file].lines) |->
        IF variant = "enh" THEN enh_line_id(F[file].lines[i])
        ELSE base_line_id(F[file].lines[i])]

HasId(F, file, id) == \E i \in 1..Len(F[file].lines) : Ids(F, file)[i] = id

\* the stock of each record of products.csv, as the running program reads it;
\* read is FALSE for a line the enhanced program cannot read
Stocks(F) ==
    [i \in 1..Len(F[PRODUCTS_FILE].lines) |->
        IF variant = "enh"
        THEN Bind(enh_read_product(F[PRODUCTS_FILE].lines[i]), LAMBDA d :
                  [read |-> ~d.crash, stock |-> d.p.stock])
        ELSE [read |-> TRUE, stock |-> base_read_product(F[PRODUCTS_FILE].lines[i]).p.stock]]

\* the records of products.csv with id product_id whose stock + delta is
\* outside the range of int
Overflowing(F, product_id, delta) ==
    {i \in 1..Len(F[PRODUCTS_FILE].lines) :
        /\ Ids(F, PRODUCTS_FILE)[i] = product_id
        /\ Stocks(F)[i].read
        /\ \/ delta > 0 /\ Stocks(F)[i].stock > IntMax - delta
           \/ delta < 0 /\ Stocks(F)[i].stock < IntMin - delta}

\* signed overflow in p.stock += delta is undefined: the sum wraps (new_stock),
\* or the build traps it and the process dies with the temp file open, empty
trapped(F) == Outcome(fopen_w(F, PRODUCTS_TMP), "crash", NoUser)

call_enh_update_product_stock ==
    /\ AtMenu("enh")
    /\ \E product_id \in IdInputs, delta \in DeltaInputs :
       \E r0 \in {enh_update_product_stock(fs, product_id, delta, "none")},
          fault \in MutatorFaults, overflow \in {"wraps", "traps"} :
       \E r \in {IF overflow = "traps" THEN trapped(fs)
                 ELSE IF fault = "none" THEN r0
                 ELSE enh_update_product_stock(fs, product_id, delta, fault)} :
          /\ Met(fault, r, r0)
          /\ overflow = "traps"
             => fault = "none" /\ Overflowing(fs, product_id, delta) # {}
          /\ Done("update_product_stock", product_id, delta, fault, r, current_user)
    /\ UNCHANGED issued

call_base_update_product_stock ==
    /\ AtMenu("base")
    /\ \E product_id \in IdInputs, delta \in DeltaInputs :
       \E r0 \in {base_update_product_stock(fs, product_id, delta, "none")},
          fault \in MutatorFaults, overflow \in {"wraps", "traps"} :
       \E r \in {IF overflow = "traps" THEN trapped(fs)
                 ELSE IF fault = "none" THEN r0
                 ELSE base_update_product_stock(fs, product_id, delta, fault)} :
          /\ Met(fault, r, r0)
          /\ overflow = "traps"
             => fault = "none" /\ Overflowing(fs, product_id, delta) # {}
          /\ Done("update_product_stock", product_id, delta, fault, r, current_user)
    /\ UNCHANGED issued

NextStock ==
    \/ call_enh_login
    \/ call_base_login
    \/ call_enh_add_product
    \/ call_base_add_product
    \/ call_enh_update_product_stock
    \/ call_base_update_product_stock

SpecStock == Init /\ [][NextStock]_vars

(* ------------ next_id_from_file called on a file of any ids ----------- *)
\* the longest file next_id_from_file is called on
MaxIds == 3
\* the ids the records of that file may carry
IdSet == {1, 3, 7, 12}
IdSeqs == UNION {[1..n -> IdSet] : n \in 0..MaxIds}

\* users.csv of the enhanced program holding one user per id of `ids`
users_with(ids) ==
    File([i \in 1..Len(ids) |->
             user_line(User(ids[i], <<"a", ",", "b">>, simple_hash(pass), 1, 0, 1, 1, 0, 1))])

\* customers.csv of the baseline program holding one customer per id of `ids`
customers_with(ids) ==
    File([i \in 1..Len(ids) |-> base_customer_line(ids[i], <<"a">>, <<"p">>, <<"e">>)])

\* a file holding records with the ids of `issued` in that order, or no file
InitNextId ==
    /\ variant \in {"base", "enh"}
    /\ pc = "menu"
    /\ issued \in IdSeqs
    /\ \E present \in BOOLEAN :
          /\ ~present => issued = <<>>
          /\ fs = IF ~present THEN NoFiles
                  ELSE IF variant = "enh"
                       THEN [NoFiles EXCEPT ![USERS_FILE] = users_with(issued)]
                  ELSE [NoFiles EXCEPT ![CUSTOMERS_FILE] = customers_with(issued)]
    /\ current_user = NoUser
    /\ clock = 0
    /\ pre = NoFiles
    /\ last = Op("start", 0, 0, "none", "none")
    /\ faulted = FALSE

call_enh_next_id_from_file ==
    /\ variant = "enh" /\ last.op = "start"
    /\ last' = Op("next_id_from_file", enh_next_id_from_file(fs, USERS_FILE), 0, "none", "ok")
    /\ UNCHANGED <<variant, pc, fs, current_user, clock, pre, issued, faulted>>

call_base_next_id_from_file ==
    /\ variant = "base" /\ last.op = "start"
    /\ last' = Op("next_id_from_file", base_next_id_from_file(fs, CUSTOMERS_FILE), 0, "none",
                  "ok")
    /\ UNCHANGED <<variant, pc, fs, current_user, clock, pre, issued, faulted>>

NextNextId ==
    \/ call_enh_next_id_from_file
    \/ call_base_next_id_from_file

SpecNextId == InitNextId /\ [][NextNextId]_vars

(* --------------- scans of a products file found on disk --------------- *)
\* the longest products file scanned
MaxLines == 2

\* field texts joined by commas, ended by the newline
line_of(fields) ==
    Concat([i \in 1..(2 * Len(fields) - 1) |->
               IF i % 2 = 1 THEN fields[(i + 1) \div 2] ELSE <<COMMA>>]) \o <<NL>>

\* 1,"Mouse, Wireless",Peripherals,Acme,5.00,9.99,10,2
MouseLine ==
    <<"1", ",", "\"", "M", "o", "u", "s", "e", ",", " ", "W", "i", "r", "e", "l", "e",
    "s", "s", "\"", ",", "P", "e", "r", "i", "p", "h", "e", "r", "a", "l", "s", ",",
    "A", "c", "m", "e", ",", "5", ".", "0", "0", ",", "9", ".", "9", "9", ",", "1",
    "0", ",", "2", NL>>
MouseName == <<"M", "o", "u", "s", "e", ",", " ", "W", "i", "r", "e", "l", "e", "s", "s">>

\* the names a record on disk may carry: empty, plain, with a comma
DiskNames == {<<>>, <<"a">>, <<"a", ",", " ", "b">>}
DiskStock == 10

\* a products line of the enhanced format, the name quoted or not
enh_disk_line(id, name, quoted, stock) ==
    line_of(<<FmtD(id), IF quoted THEN Quoted(name) ELSE name, <<"c">>, <<"b">>,
              FmtF2(CostInput), FmtF2(SellInput), FmtD(stock), FmtD(1)>>)

\* a products line of the baseline format
base_disk_line(id, name, stock) ==
    line_of(<<FmtD(id), name, <<"c">>, <<"b">>, FmtF2(CostInput), FmtF2(SellInput),
              FmtD(stock)>>)

\* a blank line, and a line with fewer fields than a product has
BlankLine == <<NL>>
ShortLine == <<"2", ",", "a", NL>>

\* enhanced lines whose fields are all present; a comma only inside quotes
EnhWellFormed ==
    {enh_disk_line(id, name, TRUE, DiskStock) : id \in PidInputs, name \in DiskNames \ {<<>>}}
    \cup {enh_disk_line(id, <<"a">>, FALSE, DiskStock) : id \in PidInputs}
    \cup {MouseLine}

EnhDiskLines ==
    EnhWellFormed \cup {enh_disk_line(id, <<>>, FALSE, DiskStock) : id \in PidInputs}
    \cup {BlankLine, ShortLine}

BaseWellFormed == {base_disk_line(id, <<"a">>, DiskStock) : id \in PidInputs}

BaseDiskLines ==
    BaseWellFormed \cup {base_disk_line(id, <<>>, DiskStock) : id \in PidInputs}
    \cup {BlankLine, ShortLine}

\* list_products of the baseline program tests every token before use
base_list_products(F) == "ok"

\* the program is at its menu and products.csv holds any of the lines above
InitCodec ==
    /\ variant \in {"base", "enh"}
    /\ pc = "menu"
    /\ \E n \in 0..MaxLines :
          \E ls \in [1..n -> IF variant = "enh" THEN EnhDiskLines ELSE BaseDiskLines] :
             fs = [NoFiles EXCEPT ![PRODUCTS_FILE] = File(ls)]
    /\ current_user = NoUser
    /\ clock = 0
    /\ pre = NoFiles
    /\ last = Op("start", 0, 0, "none", "none")
    /\ issued = <<>>
    /\ faulted = FALSE

\* a scan ran: its outcome and the product it returned
Scan(name, id, res, p) ==
    /\ last.op = "start"
    /\ last' = Op(name, id, p, "none", res)
    /\ UNCHANGED <<variant, pc, fs, current_user, clock, pre, issued, faulted>>

call_enh_find_product_by_id ==
    /\ variant = "enh"
    /\ \E id \in PidInputs :
       \E r \in {enh_find_product_by_id(fs, id)} :
          Scan("find_product_by_id", id, r.res,
               IF r.res = "found" THEN enh_read_product(r.line).p ELSE NoProduct)

call_base_find_product_by_id ==
    /\ variant = "base"
    /\ \E id \in PidInputs :
       \E r \in {base_find_product_by_id(fs, id)} :
          Scan("find_product_by_id", id, r.res,
               IF r.res = "found" THEN base_read_product(r.line).p ELSE NoProduct)

call_enh_list_products ==
    /\ variant = "enh"
    /\ Scan("list_products", 0, enh_list_products(fs), NoProduct)

call_base_list_products ==
    /\ variant = "base"
    /\ Scan("list_products", 0, base_list_products(fs), NoProduct)

NextCodec ==
    \/ call_enh_find_product_by_id
    \/ call_base_find_product_by_id
    \/ call_enh_list_products
    \/ call_base_list_products

SpecCodec == InitCodec /\ [][NextCodec]_vars

(* ------ the enhanced operations in a session of any capabilities ------ *)
\* the capability flags of the session: all, or all but one
PermFlagInputs ==
    {<<1, 1, 1, 1, 1>>, <<0, 1, 1, 1, 1>>, <<1, 0, 1, 1, 1>>, <<1, 1, 0, 1, 1>>,
     <<1, 1, 1, 1, 0>>}

\* the files an earlier session left: one product and one customer, or none
stocked_files(F) ==
    [F EXCEPT ![PRODUCTS_FILE] =
                  File(<<enh_product_line(Product(1, <<"a">>, <<"c">>, <<"b">>, CostInput,
                                                  SellInput, DiskStock, 0))>>),
              ![CUSTOMERS_FILE] =
                  File(<<enh_customer_line(1, <<"n">>, <<"p">>, <<"e">>, <<"n">>)>>)]

\* the default user, given the flags g by edit_user_permissions, has left the
\* program and logged in again: users.csv holds its record and login copied
\* the record into current_user; one operation of the session remains
InitPerm ==
    /\ variant = "enh"
    /\ pc = "menu"
    /\ \E g \in PermFlagInputs, stocked \in BOOLEAN :
          /\ current_user = WithFlags(default_admin, g, 1)
          /\ fs = Bind(fwrite_all(NoFiles, USERS_FILE,
                                  <<user_line(WithFlags(default_admin, g, 1))>>),
                       LAMBDA F : IF stocked THEN stocked_files(F) ELSE F)
    /\ clock = MaxOps - 1
    /\ pre = fs
    /\ last = Op("login", 1, 0, "none", "ok")
    /\ issued = <<1>>
    /\ faulted = FALSE

NextPerm ==
    \/ call_add_user
    \/ call_edit_user_permissions
    \/ call_delete_user
    \/ call_enh_add_product
    \/ call_enh_add_customer
    \/ call_enh_make_sale

SpecPerm == InitPerm /\ [][NextPerm]_vars

(* ---------- user management from the default users file --------------- *)
\* a second user, added by the default user with every capability
second_user == User(2, <<"a">>, simple_hash(pass), 1, 1, 1, 1, 1, 1)

\* the session of the default user on the default users file, or, after that
\* user added second_user and left, the session of second_user
InitUsers ==
    /\ variant = "enh"
    /\ pc = "menu"
    /\ \/ /\ current_user = default_admin
          /\ fs = ensure_default_user(NoFiles)
          /\ issued = <<1>>
          /\ last = Op("login", 1, 0, "none", "ok")
       \/ /\ current_user = second_user
          /\ fs = fappend(ensure_default_user(NoFiles), USERS_FILE, user_line(second_user))
          /\ issued = <<1, 2>>
          /\ last = Op("login", 2, 0, "none", "ok")
    /\ clock = 0
    /\ pre = fs
    /\ faulted = FALSE

NextUsers ==
    \/ call_add_user
    \/ call_edit_user_permissions
    \/ call_delete_user
    \/ call_change_password

SpecUsers == InitUsers /\ [][NextUsers]_vars

(* ============================ properties ============================== *)
\* the scan-and-rewrite operations
Mutators == {"update_product_stock", "update_repair_status", "update_assembly_status",
             "edit_user_permissions", "delete_user", "change_password"}

\* the file a scan-and-rewrite operation rewrites, and its temp file
EntityFile(op) ==
    CASE op = "update_product_stock" -> PRODUCTS_FILE
      [] op = "update_repair_status" -> REPAIRS_FILE
      [] op = "update_assembly_status" -> ASSEMBLIES_FILE
      [] OTHER -> USERS_FILE

TempFile(op) ==
    CASE op = "update_product_stock" -> PRODUCTS_TMP
      [] op = "update_repair_status" -> REPAIRS_TMP
      [] op = "update_assembly_status" -> ASSEMBLIES_TMP
      [] OTHER -> USERS_TMP

\* the last operation was a scan-and-rewrite that met no fault and got as far
\* as scanning its file
Scanned ==
    /\ last.op \in Mutators
    /\ last.fault = "none"
    /\ pre[EntityFile(last.op)].exists
    /\ last.res \notin {"denied", "invalid", "ioerror"}

\* C1: when no record of the file has the target id, a scan-and-rewrite
\* operation leaves the entity file byte-identical and does not end as a
\* success: the caller is told not-found (update_product_stock returns
\* nothing in either program, which is counted here as not-found)
C1_NotFoundLeavesFile ==
    (Scanned /\ ~HasId(pre, EntityFile(last.op), last.id))
    => /\ fs[EntityFile(last.op)] = pre[EntityFile(last.op)]
       /\ last.res \in {"notfound", "silent"}

\* C2: when the temp file cannot be opened or a write to it fails, the entity
\* file keeps exactly its content of before the call and the operation does
\* not end as a success
C2_FailedWriteKeepsOriginal ==
    (last.op \in Mutators /\ last.fault \in {"open_tmp", "write"})
    => /\ fs[EntityFile(last.op)] = pre[EntityFile(last.op)]
       /\ last.res \notin {"ok", "cancelled"}

\* C3: when the process is killed during the replace step, the entity file
\* exists and holds the complete old content or the complete new content
C3_AtomicReplace ==
    (last.op \in Mutators /\ last.fault = "crash")
    => /\ fs[EntityFile(last.op)].exists
       /\ \/ fs[EntityFile(last.op)].lines = pre[EntityFile(last.op)].lines
          \/ fs[EntityFile(last.op)].lines = fs[TempFile(last.op)].lines

\* C4: a successful mutation of the record with id k keeps the number and the
\* order of the records, and rewrites every record whose id is not k as it was
C4_OtherRecordsUnchanged ==
    (/\ Scanned
     /\ last.op # "delete_user"
     /\ last.res \in {"ok", "silent"}
     /\ HasId(pre, EntityFile(last.op), last.id))
    => /\ Len(fs[EntityFile(last.op)].lines) = Len(pre[EntityFile(last.op)].lines)
       /\ \A i \in 1..Len(pre[EntityFile(last.op)].lines) :
             Ids(pre, EntityFile(last.op))[i] # last.id
             => fs[EntityFile(last.op)].lines[i] = pre[EntityFile(last.op)].lines[i]

\* C5: no record of products.csv has a negative stock
C5_StockNeverNegative ==
    \A i \in 1..Len(fs[PRODUCTS_FILE].lines) :
        Stocks(fs)[i].read => Stocks(fs)[i].stock >= 0

\* C6: update_product_stock(product_id, delta) on a product of stock s >= 0
\* leaves that product with stock max(0, s + delta); a sum above INT_MAX is no
\* value an int stock can have
C6_StockIsClampedSum ==
    \A i \in 1..Len(pre[PRODUCTS_FILE].lines) :
        (/\ last.op = "update_product_stock"
         /\ last.fault = "none"
         /\ Ids(pre, PRODUCTS_FILE)[i] = last.id
         /\ Stocks(pre)[i].read
         /\ Stocks(pre)[i].stock >= 0)
        => /\ i <= Len(fs[PRODUCTS_FILE].lines)
           /\ Stocks(fs)[i].read
           /\ last.arg <= IntMax - Stocks(pre)[i].stock
           /\ Stocks(fs)[i].stock = Max(0, Stocks(pre)[i].stock + last.arg)

\* C7: over add_user and delete_user calls that meet no fault, the id given to
\* a newly added user is strictly greater than every id given before, the ids
\* of deleted users included
C7_IdsNeverReused ==
    (last.op = "add_user" /\ last.res = "ok" /\ ~faulted)
    => \A i \in 1..(Len(issued) - 1) : issued[i] < issued[Len(issued)]

\* C8: next_id_from_file returns 1 for an absent file or a file without
\* records, and otherwise 1 + the greatest id of the records, in any order
C8_NextIdIsMaxPlusOne ==
    last.op = "next_id_from_file"
    => last.id = IF issued = <<>> THEN 1
                 ELSE 1 + SetMax({issued[i] : i \in 1..Len(issued)})

\* next_id_from_file was called on records with ids 7, 1, 3 and returned 8
C8_Witness ==
    /\ last.op = "next_id_from_file"
    /\ issued = <<7, 1, 3>>
    /\ \E f \in DataFiles : Len(fs[f].lines) = 3
    /\ last.id = 8

\* C9: no two records of the same file have the same id
C9_IdsUnique ==
    \A f \in DataFiles :
        \A i, j \in 1..Len(fs[f].lines) : i # j => Ids(fs, f)[i] # Ids(fs, f)[j]

\* a scan-and-rewrite or a deletion just succeeded on a file that now holds
\* two records, created one after the other
C9_Witness ==
    /\ last.op \in Mutators
    /\ last.res = "ok"
    /\ Len(fs[EntityFile(last.op)].lines) = 2
    /\ Ids(fs, EntityFile(last.op))[1] # Ids(fs, EntityFile(last.op))[2]

\* the file an encoder of the enhanced program appends to
EncodedFile(op) ==
    CASE op = "add_user" -> USERS_FILE
      [] op = "add_product" -> PRODUCTS_FILE
      [] OTHER -> CUSTOMERS_FILE

\* C10: parse_csv_field(line, i) on the line an encoder of the enhanced
\* program just wrote returns, for every field index i, the value written
C10_RoundTrip ==
    (/\ variant = "enh"
     /\ last.op \in {"add_user", "add_product", "add_customer"}
     /\ last.res = "ok")
    => \A i \in 1..Len(last.arg) :
          parse_csv_field(fs[EncodedFile(last.op)].lines[Len(fs[EncodedFile(last.op)].lines)],
                          i - 1) = last.arg[i]

\* index of the first line of products.csv that is `line`, 0 if there is none
FirstLine(line) ==
    IF \E k \in 1..Len(fs[PRODUCTS_FILE].lines) : fs[PRODUCTS_FILE].lines[k] = line
    THEN First({k \in 1..Len(fs[PRODUCTS_FILE].lines) : fs[PRODUCTS_FILE].lines[k] = line})
    ELSE 0

\* find_product_by_id(id) ran on a file whose first record of that id is `line`
\* and whose earlier lines, if any, are well formed
FoundAt(id, line, wellformed) ==
    /\ last.op = "find_product_by_id"
    /\ last.id = id
    /\ FirstLine(line) # 0
    /\ \A k \in 1..(FirstLine(line) - 1) :
          /\ fs[PRODUCTS_FILE].lines[k] \in wellformed
          /\ Ids(fs, PRODUCTS_FILE)[k] # id

\* C11: an empty field decodes to the empty string, and the fields after it
\* are decoded at their own positions: a product line with an empty name
\* reads back with name "", category "c" and its own stock
C11_EmptyFieldDecodesEmpty ==
    \A id \in PidInputs :
        FoundAt(id,
                IF variant = "enh" THEN enh_disk_line(id, <<>>, FALSE, DiskStock)
                ELSE base_disk_line(id, <<>>, DiskStock),
                IF variant = "enh" THEN EnhWellFormed ELSE BaseWellFormed)
        => /\ last.res = "found"
           /\ last.arg.name = <<>>
           /\ last.arg.category = <<"c">>
           /\ last.arg.stock = DiskStock

\* C12: parse_csv_field splits a line only at the commas outside quotes:
\* find_product_by_id of the enhanced program returns a quoted name with its
\* commas and without its quotes, and the stock from its own field
C12_QuotedCommaKept ==
    variant = "enh"
    => /\ \A id \in PidInputs, name \in DiskNames \ {<<>>} :
             FoundAt(id, enh_disk_line(id, name, TRUE, DiskStock), EnhWellFormed)
             => /\ last.res = "found"
                /\ last.arg.name = name
                /\ last.arg.stock = DiskStock
       /\ FoundAt(1, MouseLine, EnhWellFormed)
          => /\ last.res = "found"
             /\ last.arg.name = MouseName
             /\ last.arg.stock = 10

\* find_product_by_id(1) returned the product of the line
\* 1,"Mouse, Wireless",Peripherals,Acme,5.00,9.99,10,2
C12_Witness ==
    /\ variant = "enh"
    /\ last.op = "find_product_by_id"
    /\ last.id = 1
    /\ fs[PRODUCTS_FILE].lines = <<MouseLine>>
    /\ last.res = "found"
    /\ last.arg.name = MouseName

\* C13: a scan of a file that holds a blank line or a line with too few
\* fields skips that line and returns normally
C13_ScanNeverAborts ==
    (/\ last.op \in {"list_products", "find_product_by_id"}
     /\ \A k \in 1..Len(fs[PRODUCTS_FILE].lines) :
           fs[PRODUCTS_FILE].lines[k] \in
               {BlankLine, ShortLine} \cup
               (IF variant = "enh" THEN EnhWellFormed ELSE BaseWellFormed))
    => last.res # "crash"

\* the operations that create a record, and the file each appends to
Creates == {"add_user", "add_product", "add_customer", "make_sale", "create_repair_job",
            "create_assembly_order"}

CreateFile(op) ==
    CASE op = "add_user" -> USERS_FILE
      [] op = "add_product" -> PRODUCTS_FILE
      [] op = "add_customer" -> CUSTOMERS_FILE
      [] op = "make_sale" -> SALES_FILE
      [] op = "create_repair_job" -> REPAIRS_FILE
      [] OTHER -> ASSEMBLIES_FILE

\* the last create added one line at the end of its file and left the
\* earlier lines as they were
AppendedOneLine ==
    /\ Len(fs[CreateFile(last.op)].lines) = Len(pre[CreateFile(last.op)].lines) + 1
    /\ \A k \in 1..Len(pre[CreateFile(last.op)].lines) :
          fs[CreateFile(last.op)].lines[k] = pre[CreateFile(last.op)].lines[k]

\* C14: a create adds exactly one line at the end of its file and leaves the
\* earlier lines unchanged, and a scan of the file yields the new record with
\* the content it was created with (list_customers after add_customer)
C14_AppendPureAndOrdered ==
    (last.op \in Creates /\ last.res = "ok")
    => (/\ AppendedOneLine
        /\ ((variant = "enh" /\ last.op = "add_customer")
            => (\A i \in 1..Len(last.arg) :
                  parse_csv_field(fs[CUSTOMERS_FILE].lines[Len(fs[CUSTOMERS_FILE].lines)],
                                  i - 1) = last.arg[i])))

(* ---------- make_sale on a product of any price, stock 10 ------------- *)
\* sell prices in cents: the 9.99 of the specification's scenario and 9362.31
SalePrices == {999, 936231}
SaleStock == 10

\* what login and one add_product and one add_customer leave on disk
InitSale ==
    /\ variant \in {"base", "enh"}
    /\ pc = "menu"
    /\ \E price \in SalePrices :
          fs = IF variant = "enh"
               THEN [ensure_default_user(NoFiles) EXCEPT
                        ![PRODUCTS_FILE] =
                            File(<<enh_product_line(Product(1, <<"a">>, <<"c">>, <<"b">>,
                                                            CostInput, price, SaleStock, 0))>>),
                        ![CUSTOMERS_FILE] =
                            File(<<enh_customer_line(1, <<"n">>, <<"p">>, <<"e">>, <<"n">>)>>)]
               ELSE [base_ensure_default_user(NoFiles) EXCEPT
                        ![PRODUCTS_FILE] =
                            File(<<base_product_line(Product(1, <<"a">>, <<"c">>, <<"b">>,
                                                             CostInput, price, SaleStock, 0))>>),
                        ![CUSTOMERS_FILE] =
                            File(<<base_customer_line(1, <<"n">>, <<"p">>, <<"e">>)>>)]
    /\ current_user = IF variant = "enh" THEN default_admin ELSE NoUser
    /\ clock = 0
    /\ pre = fs
    /\ last = Op("start", 0, 0, "none", "none")
    /\ issued = <<>>
    /\ faulted = FALSE

NextSale ==
    \/ call_enh_make_sale
    \/ call_base_make_sale

SpecSale == InitSale /\ [][NextSale]_vars

(* ------------------------------- sales -------------------------------- *)
\* the sale the last line of sales.csv holds, as list_sales reads it
\* (total_price in cents)
read_sale(line) ==
    IF variant = "enh"
    THEN [product_id |-> atoi(parse_csv_field(line, 1)),
          customer_id |-> atoi(parse_csv_field(line, 2)),
          quantity |-> atoi(parse_csv_field(line, 3)),
          total_price |-> atof(parse_csv_field(line, 4))]
    ELSE Bind(Tokens(line, 1, 5, {COMMA}), LAMBDA tok :
              [product_id |-> OrZeroI(tok[2]), customer_id |-> OrZeroI(tok[3]),
               quantity |-> OrZeroI(tok[4]), total_price |-> OrZeroF(tok[5])])

LastSale == read_sale(fs[SALES_FILE].lines[Len(fs[SALES_FILE].lines)])

\* the last operation was make_sale and it added a line to sales.csv
SaleAdded ==
    /\ last.op = "make_sale"
    /\ Len(fs[SALES_FILE].lines) = Len(pre[SALES_FILE].lines) + 1

\* C15: make_sale adds a sale only with the id typed for a record of
\* products.csv and the id of a record of customers.csv as the files are at
\* that time; a make_sale that adds no sale leaves products.csv as it was
C15_SaleIdsResolve ==
    last.op = "make_sale"
    => IF SaleAdded
       THEN /\ LastSale.product_id = last.id
            /\ HasId(pre, PRODUCTS_FILE, LastSale.product_id)
            /\ HasId(fs, CUSTOMERS_FILE, LastSale.customer_id)
       ELSE /\ fs[SALES_FILE] = pre[SALES_FILE]
            /\ fs[PRODUCTS_FILE] = pre[PRODUCTS_FILE]
            /\ fs[PRODUCTS_TMP] = pre[PRODUCTS_TMP]

\* a sale was recorded for a product id with a record while the other id a
\* user can type has none
C15_Witness == SaleAdded /\ last.res = "ok" /\ ~HasId(pre, PRODUCTS_FILE, 3 - last.id)

\* the product make_sale found: the first record of products.csv, as it was
\* before the sale, whose id is the id typed
SoldAt(i) ==
    /\ last.op = "make_sale" /\ last.res = "ok" /\ last.fault = "none"
    /\ i \in 1..Len(pre[PRODUCTS_FILE].lines)
    /\ Ids(pre, PRODUCTS_FILE)[i] = last.id
    /\ \A k \in 1..(i - 1) : Ids(pre, PRODUCTS_FILE)[k] # last.id

\* the sell price in cents of record i of products.csv as the program reads it
SellPrice(F, i) ==
    IF variant = "enh" THEN enh_read_product(F[PRODUCTS_FILE].lines[i]).p.sell_price
    ELSE base_read_product(F[PRODUCTS_FILE].lines[i]).p.sell_price

\* C16: a completed make_sale of quantity q on a product of stock s and sell
\* price p records a sale of quantity q with total_price p * q, to the cent,
\* and leaves the product with stock s - q
C16_TotalAndStock ==
    \A i \in 1..Len(pre[PRODUCTS_FILE].lines) :
        SoldAt(i)
        => /\ SaleAdded
           /\ LastSale.quantity = last.arg
           /\ LastSale.total_price = SellPrice(pre, i) * last.arg
           /\ i <= Len(fs[PRODUCTS_FILE].lines)
           /\ Stocks(fs)[i].stock = Stocks(pre)[i].stock - last.arg

\* C17: a sale that make_sale records has a quantity of at least 1 and at most
\* the stock the product had when the sale was made, whatever quantity is typed
C17_QuantityInRange ==
    \A i \in 1..Len(pre[PRODUCTS_FILE].lines) :
        (/\ SaleAdded
         /\ Ids(pre, PRODUCTS_FILE)[i] = last.id
         /\ \A k \in 1..(i - 1) : Ids(pre, PRODUCTS_FILE)[k] # last.id)
        => /\ LastSale.quantity >= 1
           /\ LastSale.quantity <= Stocks(pre)[i].stock

(* ------------------------------ statuses ------------------------------ *)
\* the statuses the prompts of update_repair_status and update_assembly_status
\* name
RepairStatuses == {Received, InProgress, Completed, Collected}
AssemblyStatuses == {Pending, Assembled, Delivered}

\* C18: update_repair_status and update_assembly_status leave the file as it
\* was when the status typed is none of the statuses of the closed set (the
\* empty string, a string with a comma)
C18_StatusInClosedSet ==
    /\ (last.op = "update_repair_status" /\ last.fault = "none" /\ last.arg \notin RepairStatuses)
       => fs[REPAIRS_FILE] = pre[REPAIRS_FILE]
    /\ (last.op = "update_assembly_status" /\ last.fault = "none" /\ last.arg \notin AssemblyStatuses)
       => fs[ASSEMBLIES_FILE] = pre[ASSEMBLIES_FILE]

\* the first record of repairs.csv with the id typed, as update_repair_status
\* reads it
TargetRepair(F) ==
    read_repair(F[REPAIRS_FILE].lines[
        CHOOSE i \in 1..Len(F[REPAIRS_FILE].lines) :
            /\ Ids(F, REPAIRS_FILE)[i] = last.id
            /\ \A k \in 1..(i - 1) : Ids(F, REPAIRS_FILE)[k] # last.id]).r

\* update_repair_status just rewrote the repair with the id typed, with the
\* new status Completed or In Progress
StatusSet ==
    /\ last.op = "update_repair_status"
    /\ last.res = "ok"
    /\ last.fault = "none"
    /\ last.arg \in {Completed, InProgress}

\* C19: update_repair_status with the new status Completed sets the repair's
\* date_completed to the current time, with In Progress it leaves
\* date_completed as it was; customer_id, device, problem, cost_estimate and
\* date_received of the repair stay as they were
C19_CompletedStampsDate ==
    StatusSet
    => /\ HasId(fs, REPAIRS_FILE, last.id)
       /\ TargetRepair(fs).status = last.arg
       /\ TargetRepair(fs).date_completed =
              IF last.arg = Completed THEN now_str(clock - 1)
              ELSE TargetRepair(pre).date_completed
       /\ TargetRepair(fs).customer_id = TargetRepair(pre).customer_id
       /\ TargetRepair(fs).device = TargetRepair(pre).device
       /\ TargetRepair(fs).problem = TargetRepair(pre).problem
       /\ TargetRepair(fs).cost_estimate = TargetRepair(pre).cost_estimate
       /\ TargetRepair(fs).date_received = TargetRepair(pre).date_received

(* ------------------------------- users -------------------------------- *)
\* C20: delete_user called with the id of the logged-in user is turned down
\* and leaves every file as it was, the temp file included; a delete_user that
\* meets no fault never removes the record of the logged-in user
C20_SelfDeleteRejected ==
    /\ (last.op = "delete_user" /\ last.id = current_user.id)
       => (last.res \in {"invalid", "denied"} /\ fs = pre)
    /\ (last.op = "delete_user" /\ last.fault = "none"
           /\ HasId(pre, USERS_FILE, current_user.id))
       => HasId(fs, USERS_FILE, current_user.id)

\* a user who may manage users asked to delete the own account
C20_Witness ==
    /\ last.op = "delete_user"
    /\ last.id = current_user.id
    /\ last.res = "invalid"
    /\ HasId(fs, USERS_FILE, current_user.id)


\* the lines of users.csv in F whose id is not `id`, in their order
WithoutId(F, id) == SelectSeq(F[USERS_FILE].lines, LAMBDA l : enh_line_id(l) # id)

\* delete_user was called by a user who may manage users, for the id of another
\* user's record, and met no fault
DeleteAsked ==
    /\ last.op = "delete_user"
    /\ last.fault = "none"
    /\ current_user.can_manage_users # 0
    /\ last.id # current_user.id
    /\ HasId(pre, USERS_FILE, last.id)

\* C21: delete_user(k) for k not the id of the logged-in user and present in
\* users.csv, meeting no fault: answered yes, users.csv afterwards holds the
\* lines it held without the record of id k, every other line as it was and in
\* the same order; answered no, users.csv holds what it held
C21_DeleteOmitsOnlyTarget ==
    DeleteAsked
    => /\ fs[USERS_FILE].exists
       /\ last.res = (IF last.arg = 1 THEN "ok" ELSE "cancelled")
       /\ fs[USERS_FILE].lines = IF last.arg = 1 THEN WithoutId(pre, last.id)
                                 ELSE pre[USERS_FILE].lines

\* the second of two users was deleted after a yes: the first one's line stays
C21_Witness ==
    /\ DeleteAsked
    /\ last.arg = 1
    /\ Len(pre[USERS_FILE].lines) = 2
    /\ fs[USERS_FILE].lines = <<pre[USERS_FILE].lines[1]>>


(* ----------------------------- permissions ---------------------------- *)
\* the user u lacks the capability flag the operation `op` asks for
Lacks(u, op) ==
    CASE op \in {"add_user", "edit_user_permissions", "delete_user"} -> u.can_manage_users = 0
      [] op = "add_product" -> u.can_manage_products = 0
      [] op = "add_customer" -> u.can_manage_customers = 0
      [] op = "make_sale" -> u.can_manage_sales = 0
      [] OTHER -> FALSE

\* C22: in the enhanced program an operation run by a session user who lacks
\* its capability flag ends as permission denied and leaves every data file
\* and every temp file as it was: none created, written, removed or renamed
C22_PermissionBeforeStorage ==
    [][Lacks(current_user, last'.op) => (last'.res = "denied" /\ fs' = fs)]_vars

\* a user without can_manage_sales asked for make_sale while products.csv held
\* a product
C22_Witness ==
    /\ last.op = "make_sale"
    /\ last.res = "denied"
    /\ current_user.can_manage_sales = 0
    /\ file_exists(fs, PRODUCTS_FILE)
    /\ fs = pre


\* the username of each record of users.csv, as add_user and login read it
Usernames(F) ==
    [i \in 1..Len(F[USERS_FILE].lines) |-> parse_csv_field(F[USERS_FILE].lines[i], 1)]

\* C23: add_user leaves users.csv as it was when the username typed is the
\* username of a record, and no two records of users.csv have the same username
C23_UsernamesUnique ==
    /\ (/\ last.op = "add_user"
        /\ \E i \in 1..Len(pre[USERS_FILE].lines) : Usernames(pre)[i] = last.arg[2])
       => fs = pre
    /\ \A i, j \in 1..Len(fs[USERS_FILE].lines) :
          i # j => Usernames(fs)[i] # Usernames(fs)[j]


(* ------------------------------ failures ------------------------------ *)
\* the failures an operation may meet without the process being killed or the
\* disk being full: none, or a file that cannot be opened
OpenFaults == {"none", "open_tmp", "open_append", "open_customers"}

\* C24: after start-up, every operation that meets an id not found, a file
\* that cannot be opened, an invalid input, the end of the input or a record
\* with missing fields returns to the menu: the process neither dies nor stays
\* inside the operation for ever
C24_NoFailureIsFatal ==
    (last.op \notin {"start", "login", "exit"} /\ last.fault \in OpenFaults)
    => (pc = "menu" /\ ~Died(last.res))


\* record i of products.csv, as it was before the last operation, is the
\* product with the id typed: the first record of that id
Picked(i) ==
    /\ i \in 1..Len(pre[PRODUCTS_FILE].lines)
    /\ Ids(pre, PRODUCTS_FILE)[i] = last.id
    /\ \A k \in 1..(i - 1) : Ids(pre, PRODUCTS_FILE)[k] # last.id

\* C25: whatever the outcome of make_sale, a file that cannot be opened
\* included, either a line is added to sales.csv and the stock of the product
\* is lower by the quantity of that sale, or sales.csv and products.csv are as
\* they were
C25_SaleAllOrNothing ==
    (last.op = "make_sale" /\ last.fault \in OpenFaults)
    => IF SaleAdded
       THEN \E i \in 1..Len(pre[PRODUCTS_FILE].lines) :
               /\ Picked(i)
               /\ i <= Len(fs[PRODUCTS_FILE].lines)
               /\ Stocks(fs)[i].stock = Stocks(pre)[i].stock - LastSale.quantity
       ELSE /\ fs[SALES_FILE] = pre[SALES_FILE]
            /\ fs[PRODUCTS_FILE] = pre[PRODUCTS_FILE]


\* the sum of the quantities of the first n sales of sales.csv that name the
\* product `pid`
RECURSIVE SoldQty(_, _, _)
SoldQty(F, pid, n) ==
    IF n = 0 THEN 0
    ELSE SoldQty(F, pid, n - 1)
         + (IF read_sale(F[SALES_FILE].lines[n]).product_id = pid
            THEN read_sale(F[SALES_FILE].lines[n]).quantity ELSE 0)

\* C26: from products.csv holding product 1 with stock SaleStock, after any
\* number of make_sale calls that returned to the menu (the last one met no
\* fault, or a file that cannot be opened), the stock of product 1 plus the
\* quantities of the sales of product 1 in sales.csv is SaleStock
C26_StockConserved ==
    (pc = "menu" /\ last.fault \in OpenFaults)
    => /\ Len(fs[PRODUCTS_FILE].lines) = 1
       /\ Stocks(fs)[1].stock + SoldQty(fs, 1, Len(fs[SALES_FILE].lines)) = SaleStock


\* C27: make_sale of the enhanced program, meeting no fault, for a product of
\* any stock >= 0 and a customer with a record, comes back to the sales menu
\* after some input at the quantity prompt: it never stays at that prompt for
\* ever
C27_MakeSaleTerminates ==
    (variant = "enh" /\ last.op = "make_sale" /\ last.fault = "none")
    => last.res # "hang"


\* the last operation was make_sale with 0 typed at the customer prompt
NewCustomerAsked == last.op = "make_sale" /\ last.cid = 0

\* add_customer, entered from make_sale, added a record to customers.csv
CustomerAdded == Len(fs[CUSTOMERS_FILE].lines) = Len(pre[CUSTOMERS_FILE].lines) + 1

\* C28: make_sale with 0 typed at the customer prompt records a sale only for
\* the customer that its add_customer call just created: the customer_id of
\* the sale is the id of the new last record of customers.csv, and when
\* add_customer created no record there is no sale
C28_SaleForNewCustomer ==
    (NewCustomerAsked /\ SaleAdded)
    => /\ CustomerAdded
       /\ LastSale.customer_id
             = Ids(fs, CUSTOMERS_FILE)[Len(fs[CUSTOMERS_FILE].lines)]


\* the five capability flags and is_active of a user
Flags(u) ==
    <<u.can_manage_products, u.can_manage_customers, u.can_manage_sales, u.can_view_reports,
      u.can_manage_users, u.is_active>>

\* C29: while a session is at the menu, after an operation that met no fault,
\* the flags held in current_user are the flags of the record of users.csv
\* with the same id, also after edit_user_permissions changed the record of
\* the logged-in user
C29_SessionFlagsMatchFile ==
    (variant = "enh" /\ pc = "menu" /\ last.fault = "none")
    => \A i \in 1..Len(fs[USERS_FILE].lines) :
          (/\ ~read_user(fs[USERS_FILE].lines[i]).crash
           /\ read_user(fs[USERS_FILE].lines[i]).u.id = current_user.id)
          => Flags(read_user(fs[USERS_FILE].lines[i]).u) = Flags(current_user)


\* C30: after any add_user, edit_user_permissions and delete_user calls from
\* the default users file, none of which met a fault, users.csv holds a record
\* with is_active = 1 and can_manage_users = 1: somebody can still log in and
\* manage the users
C30_NoAdminLockout ==
    (variant = "enh" /\ last.op \in {"login", "add_user", "edit_user_permissions", "delete_user"}
        /\ ~faulted)
    => \E i \in 1..Len(fs[USERS_FILE].lines) :
          /\ ~read_user(fs[USERS_FILE].lines[i]).crash
          /\ read_user(fs[USERS_FILE].lines[i]).u.is_active = 1
          /\ read_user(fs[USERS_FILE].lines[i]).u.can_manage_users = 1

====
